---- MODULE Spec2Model ----
(***************************************************************************)
(* Verification model of the attributed-entity layer of python-igraph      *)
(* (src/igraph/__init__.py): Graph.DictList (batch and incremental graph   *)
(* construction from keyed records), VertexSeq.select / EdgeSeq.select     *)
(* (keyword-predicate query grammar and relative-index narrowing), the     *)
(* operators of Graph and Graph.delete_edges, the queries Graph.k_core and *)
(* Graph.eccentricity, and _prepare_community_comparison.                  *)
(*                                                                         *)
(* Conventions: Python lists are TLA+ sequences (Python position i is      *)
(* element i+1); Python dicts are functions whose DOMAIN is the set of     *)
(* keys present; vertex and edge ids are 0-based as in the program; every  *)
(* attribute value is a string, Python's None being the string "None".     *)
(***************************************************************************)
EXTENDS Integers, Sequences, FiniteSets, TLC

None == "None"

(***************************************************************************)
(* Bounds of the model and the finite input universes.                     *)
(***************************************************************************)
MaxVertexRecords == 2
MaxEdgeRecords == 2

Names == {"a", "b", "c"}

\* default arguments of Graph.DictList
vertex_name_attr == "name"
efk_src == "source"
efk_dest == "target"

EmptyDict == [k \in {} |-> None]

\* a dict with the keys K, each key k bound to one of the values Vals[k]
DictsOver(K, Vals) == {d \in [K -> UNION {Vals[k] : k \in K}] : \A k \in K : d[k] \in Vals[k]}

\* vertex records name a and b only: c is always discovered from the edges
VertexValues == [name |-> {"a", "b"}, color |-> {"red"}]
EdgeValues == [source |-> Names, target |-> Names, weight |-> {"w1"}]

VertexRecords == UNION {DictsOver(K, VertexValues) : K \in SUBSET {"name", "color"}}
EdgeRecords == UNION {DictsOver(K, EdgeValues) : K \in SUBSET {"source", "target", "weight"}}

SeqsUpTo(S, k) == UNION {[1..len -> S] : len \in 0..k}

(***************************************************************************)
(* Small list helpers (Python built-ins).                                  *)
(***************************************************************************)
\* set(l)
ToSet(l) == {l[i] : i \in 1..Len(l)}

\* [None] * k
Nones(k) == [i \in 1..k |-> None]

\* l[i] = v for a Python position i
ListSet(l, i, v) == [l EXCEPT ![i + 1] = v]

Max(a, b) == IF a >= b THEN a ELSE b

(***************************************************************************)
(* Graph objects.  GraphBase (the C core) keeps the vertex count, the      *)
(* ordered edge list, and one value column per vertex / edge attribute.    *)
(***************************************************************************)
NoGraph == [n |-> 0, edges |-> <<>>, directed |-> FALSE, vattrs |-> EmptyDict, eattrs |-> EmptyDict]

vcount(gr) == gr.n
ecount(gr) == Len(gr.edges)

RECURSIVE MaxEndpoint(_)
MaxEndpoint(el) ==
    IF el = <<>> THEN -1
    ELSE Max(Max(el[1][1], el[1][2]), MaxEndpoint(Tail(el)))

\* GraphBase.__init__(nverts, edges, directed): the vertex count is adjusted
\* when an edge names a vertex id larger than nverts - 1
GraphBase_init(nverts, el, directed) ==
    [n |-> Max(nverts, MaxEndpoint(el) + 1), edges |-> el, directed |-> directed,
     vattrs |-> EmptyDict, eattrs |-> EmptyDict]

\* seq[name] = values through the full collection of `len` entities: the
\* values are reused cyclically until every entity has one
SetAttributeAll(len, values) ==
    [i \in 1..len |-> values[((i - 1) % Len(values)) + 1]]

\* Graph.__init__(n, edges, directed, graph_attrs, vertex_attrs, edge_attrs)
Graph_init(nverts, el, directed, vertex_attrs_, edge_attrs_) ==
    LET base == GraphBase_init(nverts, el, directed)
    IN  [base EXCEPT
            !.vattrs = [k \in DOMAIN vertex_attrs_ |-> SetAttributeAll(base.n, vertex_attrs_[k])],
            !.eattrs = [k \in DOMAIN edge_attrs_ |-> SetAttributeAll(Len(el), edge_attrs_[k])]]

\* faulty variant: the vertex columns are not resized
add_vertices_NoResize(gr, k) == [gr EXCEPT !.n = gr.n + k]

\* GraphBase.add_vertices(k): k new vertices, a null slot in every vertex column
add_vertices(gr, k) ==
    [gr EXCEPT !.n = gr.n + k,
               !.vattrs = [a \in DOMAIN gr.vattrs |-> gr.vattrs[a] \o Nones(k)]]

\* GraphBase.add_edges((v1, v2)): one new edge, a null slot in every edge column
add_edges(gr, pair) ==
    [gr EXCEPT !.edges = Append(gr.edges, pair),
               !.eattrs = [a \in DOMAIN gr.eattrs |-> gr.eattrs[a] \o Nones(1)]]

\* attrs[k][i] = v through a single-entity view; a new column is null-filled
EntitySetAttr(attrs, len, i, k, v) ==
    [a \in DOMAIN attrs \cup {k} |->
        IF a = k
        THEN ListSet(IF k \in DOMAIN attrs THEN attrs[k] ELSE Nones(len), i, v)
        ELSE attrs[a]]

\* g.vs[i][k] = v
Vertex_setitem(gr, i, k, v) == [gr EXCEPT !.vattrs = EntitySetAttr(gr.vattrs, gr.n, i, k, v)]

\* g.es[i][k] = v
Edge_setitem(gr, i, k, v) == [gr EXCEPT !.eattrs = EntitySetAttr(gr.eattrs, Len(gr.edges), i, k, v)]

(***************************************************************************)
(* UniqueIdGenerator: the list of known keys in id order (id i is the key  *)
(* at Python position i).                                                  *)
(***************************************************************************)
RECURSIVE IndexOf(_, _, _)
\* position (0-based) of key in l at or after position i, Len(l) when absent
IndexOf(l, key, i) ==
    IF i >= Len(l) THEN Len(l)
    ELSE IF l[i + 1] = key THEN i ELSE IndexOf(l, key, i + 1)

\* gen[key]: the id of key
UIG_id(gen, key) == IndexOf(gen, key, 0)

\* the generator after gen[key]: an unseen key is appended with a fresh id
UIG_lookup(gen, key) == IF key \in ToSet(gen) THEN gen ELSE Append(gen, key)

RECURSIVE UIG_add_all(_, _)
UIG_add_all(gen, initial) ==
    IF initial = <<>> THEN gen
    ELSE UIG_add_all(UIG_lookup(gen, Head(initial)), Tail(initial))

\* UniqueIdGenerator(initial = names)
UniqueIdGenerator(initial) == UIG_add_all(<<>>, initial)

\* gen.values(): the keys sorted by id
UIG_values(gen) == gen

(***************************************************************************)
(* Graph.DictList: helpers.                                                *)
(***************************************************************************)
\* faulty variant: the values are stored one after the other, the recorded
\* positions are ignored
create_list_from_indices_Packed(l, cnt) ==
    [i \in 1..cnt |-> IF i <= Len(l) THEN l[i][2] ELSE None]

RECURSIVE create_list_from_indices(_, _)
\* result = [None] * n; for i, v in l: result[i] = v
create_list_from_indices(l, cnt) ==
    IF l = <<>> THEN Nones(cnt)
    ELSE LET last == l[Len(l)]
         IN  ListSet(create_list_from_indices(SubSeq(l, 1, Len(l) - 1), cnt), last[1], last[2])

RECURSIVE IndexedValues(_, _, _)
\* the (idx, v) pairs appended under key k while enumerating recs from idx
IndexedValues(recs, k, i) ==
    IF recs = <<>> THEN <<>>
    ELSE (IF k \in DOMAIN Head(recs) THEN <<(<<i, Head(recs)[k]>>)>> ELSE <<>>)
         \o IndexedValues(Tail(recs), k, i + 1)

AllKeys(recs) == UNION {DOMAIN recs[i] : i \in 1..Len(recs)}

\* lines 1506-1518: the vertex columns and the vertex count
ConstructVertexAttrs(vs) ==
    IF vs # <<>>
    THEN [k \in AllKeys(vs) |-> create_list_from_indices(IndexedValues(vs, k, 0), Len(vs))]
    ELSE [k \in {vertex_name_attr} |-> <<>>]


\* faulty variant: the comparison of line 1522 turned around
HasDuplicates_Reversed(vertex_names) == Len(vertex_names) < Cardinality(ToSet(vertex_names))

\* the name column holds a value twice (line 1522)
HasDuplicates(vertex_names) == Len(vertex_names) # Cardinality(ToSet(vertex_names))

\* faulty variant: the target name is looked up before the source name
ResolveEndpoints_TargetFirst(gen, edge_data) ==
    LET gen1 == UIG_lookup(gen, edge_data[efk_dest])
        gen2 == UIG_lookup(gen1, edge_data[efk_src])
    IN  [gen |-> gen2,
         v1 |-> UIG_id(gen2, edge_data[efk_src]),
         v2 |-> UIG_id(gen1, edge_data[efk_dest])]

\* lines 1551-1552: the ids of the two endpoint names, the source first
ResolveEndpoints(gen, edge_data) ==
    LET gen1 == UIG_lookup(gen, edge_data[efk_src])
        gen2 == UIG_lookup(gen1, edge_data[efk_dest])
    IN  [gen |-> gen2,
         v1 |-> UIG_id(gen1, edge_data[efk_src]),
         v2 |-> UIG_id(gen2, edge_data[efk_dest])]

\* lines 1555-1559: the (idx, v) pairs of one more edge record
AccumulateEdgeAttrs(attrs, i, edge_data) ==
    [k \in DOMAIN attrs \cup DOMAIN edge_data |->
        (IF k \in DOMAIN attrs THEN attrs[k] ELSE <<>>)
        \o (IF k \in DOMAIN edge_data THEN <<(<<i, edge_data[k]>>)>> ELSE <<>>)]

\* lines 1561-1562: the edge columns
MaterializeEdgeAttrs(attrs, cnt) ==
    [k \in DOMAIN attrs |-> create_list_from_indices(attrs[k], cnt)]

\* faulty variant: line 1570 left out, the discovered vertices stay unnamed
ExtendVertexAttrs_NoNames(attrs, gen, cnt) ==
    IF Len(gen) > cnt
    THEN [k \in DOMAIN attrs |-> attrs[k] \o Nones(Len(gen) - cnt)]
    ELSE attrs

\* lines 1566-1570: vertices discovered while reading the edges get a null
\* slot in every vertex column, and the name column is taken from the generator
ExtendVertexAttrs(attrs, gen, cnt) ==
    IF Len(gen) > cnt
    THEN [k \in DOMAIN attrs \cup {vertex_name_attr} |->
            IF k = vertex_name_attr THEN UIG_values(gen)
            ELSE attrs[k] \o Nones(Len(gen) - cnt)]
    ELSE attrs

\* lines 1566, 1571: the vertex count after the edges were read
ExtendedCount(gen, cnt) == IF Len(gen) > cnt THEN Len(gen) ELSE cnt

(***************************************************************************)
(* What a call of DictList hands to its caller.                            *)
(***************************************************************************)
Outcome(kind, gr, exc) == [kind |-> kind, g |-> gr, exc |-> exc]

NoOutcome == Outcome("none", NoGraph, "")

\* return gr
Return(gr) == Outcome("graph", gr, "")

\* raise exc: the exception leaves DictList, the frame and its locals are dropped
Raise(exc) == Outcome("error", NoGraph, exc)

\* faulty variant: the KeyError is swallowed and what was built so far is returned
OnKeyError_ReturnLive(live) == Return(live)

\* edge_data[efk_src] or edge_data[efk_dest] raises KeyError while the live
\* graph `live` is held by the frame of DictList (lines 1531-1547, 1550-1552)
OnKeyError(live) == Raise("KeyError")

(***************************************************************************)
(* State.  One behaviour is a caller that hands the same two record lists  *)
(* to DictList twice, first with iterative=False and then with             *)
(* iterative=True; the variables other than vertices, edges, result and    *)
(* consumed are the locals of the running call.                            *)
(***************************************************************************)
VARIABLES
    vertices,          \* argument: the vertex records (<<>> when omitted)
    edges,             \* argument: the edge records
    iterative,         \* argument: the mode of the running call
    pc,                \* position of the running call
    consumed,          \* number of records the running call has taken from edges
    vertex_attrs, n, vertex_name_map,
    g,                 \* the live graph of the incremental mode
    idx, src_name, dst_name, v1, v2,
    pending,           \* keys of edge_data not yet visited by the loop of line 1544
    edge_list, edge_attrs, m,
    result,            \* per mode, what the caller received
    sg,                \* select: the graph the sequence refers to
    seq_type,          \* select: "vertex" for a VertexSeq, "edge" for an EdgeSeq
    sel_seq,           \* select: the absolute indices of the sequence the client holds
    ret,               \* select: what the last call of select handed back
    kw_name,           \* keyword grammar: the keyword name
    split_vs,          \* keyword grammar: how VertexSeq.select cut it
    split_es,          \* keyword grammar: how EdgeSeq.select cut it
    edge_btw,          \* delegation: what Graph.edge_betweenness returns on sg
    proxy_ret,         \* the last call of a proxy method or read of an attribute
                       \* through the sequence, and its result
    written,           \* attributes: the value last assigned through the sequence
    heap,              \* graph objects: object k is heap[k], the client's g is object 1
    opcall,            \* the last operation the client applied to g
    opret,             \* what that operation handed back
    query,             \* the last query of g (k_core, eccentricity) and its result
    lists,             \* list objects: object k is lists[k]
    cc                 \* the frame of _prepare_community_comparison

dlLocals == <<vertex_attrs, n, vertex_name_map, g, idx, src_name, dst_name, v1, v2,
              pending, edge_list, edge_attrs, m>>

dlVars == <<vertices, edges, iterative, pc, consumed, dlLocals, result>>

selVars == <<sg, seq_type, sel_seq, ret>>

kwVars == <<kw_name, split_vs, split_es>>

extVars == <<edge_btw, proxy_ret, written>>

opVars == <<heap, opcall, opret>>

qVars == <<query, lists, cc>>

vars == <<dlVars, selVars, kwVars, extVars, opVars, qVars>>

\* a fresh frame of DictList
FreshLocals ==
    /\ vertex_attrs' = EmptyDict
    /\ n' = 0
    /\ vertex_name_map' = <<>>
    /\ g' = NoGraph
    /\ idx' = 0
    /\ src_name' = None
    /\ dst_name' = None
    /\ v1' = 0
    /\ v2' = 0
    /\ pending' = {}
    /\ edge_list' = <<>>
    /\ edge_attrs' = EmptyDict
    /\ m' = 0

InitDictList ==
    /\ vertices \in SeqsUpTo(VertexRecords, MaxVertexRecords)
    /\ edges \in SeqsUpTo(EdgeRecords, MaxEdgeRecords)
    /\ iterative = FALSE
    /\ pc = "vertices"
    /\ consumed = 0
    /\ vertex_attrs = EmptyDict
    /\ n = 0
    /\ vertex_name_map = <<>>
    /\ g = NoGraph
    /\ idx = 0
    /\ src_name = None
    /\ dst_name = None
    /\ v1 = 0
    /\ v2 = 0
    /\ pending = {}
    /\ edge_list = <<>>
    /\ edge_attrs = EmptyDict
    /\ m = 0
    /\ result = [mode \in BOOLEAN |-> NoOutcome]

\* the call ends: the caller receives out
Finish(out) ==
    /\ result' = [result EXCEPT ![iterative] = out]
    /\ pc' = "end"
    /\ FreshLocals

\* lines 1506-1518
ConstructVertices ==
    /\ UNCHANGED <<selVars, kwVars, extVars, opVars, qVars>>
    /\ pc = "vertices"
    /\ vertex_attrs' = ConstructVertexAttrs(vertices)
    /\ n' = Len(vertices)
    /\ pc' = "names"
    /\ UNCHANGED <<vertices, edges, iterative, consumed, vertex_name_map, g, idx, src_name,
                   dst_name, v1, v2, pending, edge_list, edge_attrs, m, result>>

\* lines 1520-1525
CheckNames ==
    /\ UNCHANGED <<selVars, kwVars, extVars, opVars, qVars>>
    /\ pc = "names"
    /\ IF vertex_name_attr \notin DOMAIN vertex_attrs
       THEN Finish(Raise("KeyError")) /\ UNCHANGED <<vertices, edges, iterative, consumed>>
       ELSE IF HasDuplicates(vertex_attrs[vertex_name_attr])
       THEN Finish(Raise("ValueError")) /\ UNCHANGED <<vertices, edges, iterative, consumed>>
       ELSE /\ vertex_name_map' = UniqueIdGenerator(vertex_attrs[vertex_name_attr])
            /\ pc' = IF iterative THEN "iter_create" ELSE "batch_loop"
            /\ UNCHANGED <<vertices, edges, iterative, consumed, vertex_attrs, n, g, idx,
                           src_name, dst_name, v1, v2, pending, edge_list, edge_attrs, m,
                           result>>

(***************************************************************************)
(* Incremental mode, lines 1529-1547.                                      *)
(***************************************************************************)
\* line 1530
IterCreate ==
    /\ UNCHANGED <<selVars, kwVars, extVars, opVars, qVars>>
    /\ pc = "iter_create"
    /\ g' = Graph_init(n, <<>>, FALSE, vertex_attrs, EmptyDict)
    /\ pc' = "iter_loop"
    /\ UNCHANGED <<vertices, edges, iterative, consumed, vertex_attrs, n, vertex_name_map,
                   idx, src_name, dst_name, v1, v2, pending, edge_list, edge_attrs, m, result>>

\* lines 1531-1534: the next record, its endpoint names, the id of the source
IterRead ==
    /\ UNCHANGED <<selVars, kwVars, extVars, opVars, qVars>>
    /\ pc = "iter_loop"
    /\ consumed < Len(edges)
    /\ consumed' = consumed + 1
    /\ LET edge_data == edges[consumed + 1]
       IN  IF efk_src \notin DOMAIN edge_data \/ efk_dest \notin DOMAIN edge_data
           THEN Finish(OnKeyError(g)) /\ UNCHANGED <<vertices, edges, iterative>>
           ELSE /\ idx' = consumed
                /\ src_name' = edge_data[efk_src]
                /\ dst_name' = edge_data[efk_dest]
                /\ vertex_name_map' = UIG_lookup(vertex_name_map, edge_data[efk_src])
                /\ v1' = UIG_id(vertex_name_map', edge_data[efk_src])
                /\ pc' = IF v1' = n THEN "add_v1" ELSE "lookup_v2"
                /\ UNCHANGED <<vertices, edges, iterative, vertex_attrs, n, g, v2, pending,
                               edge_list, edge_attrs, m, result>>

\* line 1535
IterAddVertex1 ==
    /\ UNCHANGED <<selVars, kwVars, extVars, opVars, qVars>>
    /\ pc = "add_v1"
    /\ g' = add_vertices(g, 1)
    /\ pc' = "name_v1"
    /\ UNCHANGED <<vertices, edges, iterative, consumed, vertex_attrs, n, vertex_name_map,
                   idx, src_name, dst_name, v1, v2, pending, edge_list, edge_attrs, m, result>>

\* faulty variant: n is not advanced after the source vertex was added
IterNameVertex1_NoIncrement ==
    /\ UNCHANGED <<selVars, kwVars, extVars, opVars, qVars>>
    /\ pc = "name_v1"
    /\ g' = Vertex_setitem(g, n, vertex_name_attr, src_name)
    /\ pc' = "lookup_v2"
    /\ UNCHANGED <<vertices, edges, iterative, consumed, vertex_attrs, n, vertex_name_map,
                   idx, src_name, dst_name, v1, v2, pending, edge_list, edge_attrs, m, result>>

\* lines 1536-1537
IterNameVertex1 ==
    /\ UNCHANGED <<selVars, kwVars, extVars, opVars, qVars>>
    /\ pc = "name_v1"
    /\ g' = Vertex_setitem(g, n, vertex_name_attr, src_name)
    /\ n' = n + 1
    /\ pc' = "lookup_v2"
    /\ UNCHANGED <<vertices, edges, iterative, consumed, vertex_attrs, vertex_name_map,
                   idx, src_name, dst_name, v1, v2, pending, edge_list, edge_attrs, m, result>>

\* lines 1538-1539
IterLookup2 ==
    /\ UNCHANGED <<selVars, kwVars, extVars, opVars, qVars>>
    /\ pc = "lookup_v2"
    /\ vertex_name_map' = UIG_lookup(vertex_name_map, dst_name)
    /\ v2' = UIG_id(vertex_name_map', dst_name)
    /\ pc' = IF v2' = n THEN "add_v2" ELSE "add_edge"
    /\ UNCHANGED <<vertices, edges, iterative, consumed, vertex_attrs, n, g, idx, src_name,
                   dst_name, v1, pending, edge_list, edge_attrs, m, result>>

\* line 1540
IterAddVertex2 ==
    /\ UNCHANGED <<selVars, kwVars, extVars, opVars, qVars>>
    /\ pc = "add_v2"
    /\ g' = add_vertices(g, 1)
    /\ pc' = "name_v2"
    /\ UNCHANGED <<vertices, edges, iterative, consumed, vertex_attrs, n, vertex_name_map,
                   idx, src_name, dst_name, v1, v2, pending, edge_list, edge_attrs, m, result>>

\* faulty variant: the new target vertex gets the name of the source
IterNameVertex2_SourceName ==
    /\ UNCHANGED <<selVars, kwVars, extVars, opVars, qVars>>
    /\ pc = "name_v2"
    /\ g' = Vertex_setitem(g, n, vertex_name_attr, src_name)
    /\ n' = n + 1
    /\ pc' = "add_edge"
    /\ UNCHANGED <<vertices, edges, iterative, consumed, vertex_attrs, vertex_name_map,
                   idx, src_name, dst_name, v1, v2, pending, edge_list, edge_attrs, m, result>>

\* lines 1541-1542
IterNameVertex2 ==
    /\ UNCHANGED <<selVars, kwVars, extVars, opVars, qVars>>
    /\ pc = "name_v2"
    /\ g' = Vertex_setitem(g, n, vertex_name_attr, dst_name)
    /\ n' = n + 1
    /\ pc' = "add_edge"
    /\ UNCHANGED <<vertices, edges, iterative, consumed, vertex_attrs, vertex_name_map,
                   idx, src_name, dst_name, v1, v2, pending, edge_list, edge_attrs, m, result>>

\* line 1543; GraphBase.add_edges rejects a vertex id that is not in the graph
IterAddEdge ==
    /\ UNCHANGED <<selVars, kwVars, extVars, opVars, qVars>>
    /\ pc = "add_edge"
    /\ IF v1 < vcount(g) /\ v2 < vcount(g)
       THEN /\ g' = add_edges(g, <<v1, v2>>)
            /\ pending' = DOMAIN edges[idx + 1]
            /\ pc' = "set_attrs"
            /\ UNCHANGED <<vertices, edges, iterative, consumed, vertex_attrs, n,
                           vertex_name_map, idx, src_name, dst_name, v1, v2, edge_list,
                           edge_attrs, m, result>>
       ELSE Finish(Raise("InternalError")) /\ UNCHANGED <<vertices, edges, iterative, consumed>>

\* lines 1544-1545: one key of the record, in the dict's iteration order
IterSetAttr ==
    /\ UNCHANGED <<selVars, kwVars, extVars, opVars, qVars>>
    /\ pc = "set_attrs"
    /\ \E k \in pending :
        /\ g' = Edge_setitem(g, idx, k, edges[idx + 1][k])
        /\ pending' = pending \ {k}
        /\ pc' = IF pending' = {} THEN "iter_loop" ELSE "set_attrs"
    /\ UNCHANGED <<vertices, edges, iterative, consumed, vertex_attrs, n, vertex_name_map,
                   idx, src_name, dst_name, v1, v2, edge_list, edge_attrs, m, result>>

\* line 1547
IterReturn ==
    /\ UNCHANGED <<selVars, kwVars, extVars, opVars, qVars>>
    /\ pc = "iter_loop"
    /\ consumed = Len(edges)
    /\ Finish(Return(g))
    /\ UNCHANGED <<vertices, edges, iterative, consumed>>

(***************************************************************************)
(* Batch mode, lines 1548-1574.                                            *)
(***************************************************************************)
\* lines 1550-1560: one edge record
BatchRead ==
    /\ UNCHANGED <<selVars, kwVars, extVars, opVars, qVars>>
    /\ pc = "batch_loop"
    /\ consumed < Len(edges)
    /\ consumed' = consumed + 1
    /\ LET edge_data == edges[consumed + 1]
       IN  IF efk_src \notin DOMAIN edge_data \/ efk_dest \notin DOMAIN edge_data
           THEN Finish(OnKeyError(NoGraph)) /\ UNCHANGED <<vertices, edges, iterative>>
           ELSE LET r == ResolveEndpoints(vertex_name_map, edge_data)
                IN  /\ idx' = consumed
                    /\ v1' = r.v1
                    /\ v2' = r.v2
                    /\ vertex_name_map' = r.gen
                    /\ edge_list' = Append(edge_list, <<r.v1, r.v2>>)
                    /\ edge_attrs' = AccumulateEdgeAttrs(edge_attrs, consumed, edge_data)
                    /\ m' = m + 1
                    /\ pc' = "batch_loop"
                    /\ UNCHANGED <<vertices, edges, iterative, vertex_attrs, n, g, src_name,
                                   dst_name, pending, result>>

\* lines 1561-1574
BatchReturn ==
    /\ UNCHANGED <<selVars, kwVars, extVars, opVars, qVars>>
    /\ pc = "batch_loop"
    /\ consumed = Len(edges)
    /\ Finish(Return(Graph_init(ExtendedCount(vertex_name_map, n), edge_list, FALSE,
                                ExtendVertexAttrs(vertex_attrs, vertex_name_map, n),
                                MaterializeEdgeAttrs(edge_attrs, m))))
    /\ UNCHANGED <<vertices, edges, iterative, consumed>>

\* the caller repeats the call with iterative=True
CallIterative ==
    /\ UNCHANGED <<selVars, kwVars, extVars, opVars, qVars>>
    /\ pc = "end"
    /\ iterative = FALSE
    /\ iterative' = TRUE
    /\ pc' = "vertices"
    /\ consumed' = 0
    /\ UNCHANGED <<vertices, edges, dlLocals, result>>

NextDictList ==
    \/ ConstructVertices
    \/ CheckNames
    \/ IterCreate
    \/ IterRead
    \/ IterAddVertex1
    \/ IterNameVertex1
    \/ IterLookup2
    \/ IterAddVertex2
    \/ IterNameVertex2
    \/ IterAddEdge
    \/ IterSetAttr
    \/ IterReturn
    \/ BatchRead
    \/ BatchReturn
    \/ CallIterative

(***************************************************************************)
(* VertexSeq.select and EdgeSeq.select.  Keyword names, and the attribute  *)
(* and operator names cut from them, are sequences of characters.  The     *)
(* right-hand value of a predicate is a tagged value: a scalar (compared   *)
(* by eq, ne, lt, gt, le, ge) or a collection (tested by in, notin).       *)
(***************************************************************************)
MaxArgs == 2
NumVertices == 3

op_lt == <<"l", "t">>
op_gt == <<"g", "t">>
op_le == <<"l", "e">>
op_ge == <<"g", "e">>
op_eq == <<"e", "q">>
op_ne == <<"n", "e">>
op_in == <<"i", "n">>
op_notin == <<"n", "o", "t", "i", "n">>

\* the keys of the dict `operators` (lines 2339-2347, 2589-2597)
operators == {op_lt, op_gt, op_le, op_ge, op_eq, op_ne, op_in, op_notin}

Scalar(v) == [tag |-> "scalar", scalar |-> v, items |-> {}, items2 |-> {}]
Collection(S) == [tag |-> "collection", scalar |-> 0, items |-> S, items2 |-> {}]
\* a tuple of two collections, the value of _between
Pair(A, B) == [tag |-> "pair", scalar |-> 0, items |-> A, items2 |-> B]
\* a vertex sequence given as a value: items holds the absolute indices of
\* its vertices
VertexSeqValue(S) == [tag |-> "vertexseq", scalar |-> 0, items |-> S, items2 |-> {}]
\* a tuple of len collections, len other than 2; scalar holds len
TupleOfLen(len, A, B) == [tag |-> "tuple", scalar |-> len, items |-> A, items2 |-> B]

\* len(value) of a value that has a length
ValueLen(value) ==
    CASE value.tag = "pair" -> 2
      [] value.tag = "tuple" -> value.scalar
      [] OTHER -> Cardinality(value.items)

\* operators[op](a, value)
ApplyOperator(func, a, value) ==
    CASE func = op_lt -> a < value.scalar
      [] func = op_gt -> a > value.scalar
      [] func = op_le -> a <= value.scalar
      [] func = op_ge -> a >= value.scalar
      [] func = op_eq -> a = value.scalar
      [] func = op_ne -> a # value.scalar
      [] func = op_in -> value.tag # "vertexseq" /\ a \in value.items
      [] func = op_notin -> value.tag = "vertexseq" \/ a \notin value.items

\* c in s
Contains(s, c) == c \in ToSet(s)

\* s.rindex(c): the Python position of the last c in s
rindex(s, c) ==
    CHOOSE i \in 0..(Len(s) - 1) : s[i + 1] = c /\ \A j \in (i + 1)..(Len(s) - 1) : s[j + 1] # c

\* s[a:b]
Slice(s, a, b) == SubSeq(s, a + 1, b)

\* faulty variant: a keyword whose only underscore is its first character
\* is cut like any other keyword
VertexSeq_keyword_NoMarkerCase(keyword) ==
    LET kw == IF ~Contains(keyword, "_") THEN keyword \o <<"_">> \o op_eq ELSE keyword
        pos == rindex(kw, "_")
        attr == Slice(kw, 0, pos)
        op == Slice(kw, pos + 1, Len(kw))
    IN  IF op \in operators
        THEN [attr |-> attr, op |-> op, func |-> op]
        ELSE [attr |-> attr \o <<"_">> \o op, op |-> op, func |-> op_eq]

\* VertexSeq.select, lines 2349-2357: the attribute name, the trailing token
\* and the operator applied
VertexSeq_keyword(keyword) ==
    LET kw == IF ~Contains(keyword, "_") \/ rindex(keyword, "_") = 0
              THEN keyword \o <<"_">> \o op_eq ELSE keyword
        pos == rindex(kw, "_")
        attr == Slice(kw, 0, pos)
        op == Slice(kw, pos + 1, Len(kw))
    IN  IF op \in operators
        THEN [attr |-> attr, op |-> op, func |-> op]
        ELSE [attr |-> attr \o <<"_">> \o op, op |-> op, func |-> op_eq]

\* EdgeSeq.select, lines 2599-2608
EdgeSeq_keyword(keyword) ==
    LET kw == IF ~Contains(keyword, "_") \/ rindex(keyword, "_") = 0
              THEN keyword \o <<"_">> \o op_eq ELSE keyword
        pos == rindex(kw, "_")
        attr == Slice(kw, 0, pos)
        op == Slice(kw, pos + 1, Len(kw))
    IN  IF op \in operators
        THEN [attr |-> attr, op |-> op, func |-> op]
        ELSE [attr |-> attr \o <<"_">> \o op, op |-> op, func |-> op_eq]

\* the indices 0 .. k-1 of the full vertex or edge sequence of a graph
AllIndices(k) == [i \in 1..k |-> i - 1]

\* what a call of select hands back: a sequence of absolute indices, or an exception
Selected(indices) == [exc |-> "", indices |-> indices]
SelectError(exc) == [exc |-> exc, indices |-> <<>>]

\* positional arguments
NoArgs == [kind |-> "noargs", idxs |-> <<>>]
NoneArg == [kind |-> "none", idxs |-> <<>>]
Ints(idxs) == [kind |-> "ints", idxs |-> idxs]
Iterable(idxs) == [kind |-> "iterable", idxs |-> idxs]
\* a callable, given by the absolute indices of the entities it returns True for
Callable(idxs) == [kind |-> "callable", idxs |-> idxs]

\* core.VertexSeq.select / core.EdgeSeq.select(self, *args): integers are
\* positions in the current sequence
core_select(indices, args) ==
    CASE args.kind = "noargs" -> Selected(indices)
      [] args.kind = "none" -> Selected(<<>>)
      [] args.kind = "callable" ->
            Selected(SelectSeq(indices, LAMBDA e : e \in ToSet(args.idxs)))
      [] OTHER ->
            IF \A k \in 1..Len(args.idxs) : 0 <= args.idxs[k] /\ args.idxs[k] < Len(indices)
            THEN Selected([k \in 1..Len(args.idxs) |-> indices[args.idxs[k] + 1]])
            ELSE SelectError("LookupError")

\* seq[attr]: the values of the entities of the sequence, in sequence order
SeqValues(attrs, indices, attr) == [k \in 1..Len(indices) |-> attrs[attr][indices[k] + 1]]

\* faulty variant: the positions are listed from the last to the first
FilteredIdxs_Reversed(values, func, value) ==
    LET kept == SelectSeq([k \in 1..Len(values) |-> k - 1],
                          LAMBDA i : ApplyOperator(func, values[i + 1], value))
    IN  [k \in 1..Len(kept) |-> kept[Len(kept) + 1 - k]]

\* [i for i, v in enumerate(values) if func(v, value)]
FilteredIdxs(values, func, value) ==
    SelectSeq([k \in 1..Len(values) |-> k - 1],
              LAMBDA i : ApplyOperator(func, values[i + 1], value))

\* faulty variant: the positions are looked up in the receiver of select
Narrow_InReceiver(self, seq, filtered_idxs) == core_select(self, Iterable(filtered_idxs))

\* lines 2365, 2643: seq = seq.select(filtered_idxs)
Narrow(self, seq, filtered_idxs) == core_select(seq, Iterable(filtered_idxs))

\* Graph.degree(vertices): one value per vertex queried
degree(gr, vids) ==
    [k \in 1..Len(vids) |->
        Cardinality({j \in 1..Len(gr.edges) : gr.edges[j][1] = vids[k]})
        + Cardinality({j \in 1..Len(gr.edges) : gr.edges[j][2] = vids[k]})]

name_degree == <<"d", "e", "g", "r", "e", "e">>
name_is_loop == <<"i", "s", "_", "l", "o", "o", "p">>
name_edge_betweenness ==
    <<"e", "d", "g", "e", "_", "b", "e", "t", "w", "e", "e", "n", "n", "e", "s", "s">>

\* Graph.is_loop(edges): one value per edge queried; True and False are the
\* integers 1 and 0
is_loop(gr, eids) ==
    [k \in 1..Len(eids) |->
        IF gr.edges[eids[k] + 1][1] = gr.edges[eids[k] + 1][2] THEN 1 ELSE 0]

\* Graph.edge_betweenness(directed): one value per edge of the graph, whatever
\* its first argument holds; line 2721 indexes the result by absolute edge index
edge_betweenness(gr, directed) == edge_btw

\* the methods of Graph that the model provides to getattr(graph, name)
GraphMethods == {name_degree, name_is_loop, name_edge_betweenness}

\* getattr(graph, name)(seq)
CallMethod(gr, name, indices) ==
    CASE name = name_is_loop -> is_loop(gr, indices)
      [] name = name_edge_betweenness -> edge_betweenness(gr, indices)
      [] OTHER -> degree(gr, indices)

\* faulty variant: the result of the graph method is handed back as it is
graphmethod_NoProjection(gr, name, indices) == CallMethod(gr, name, indices)

\* _graphmethod(func, name)(seq), lines 2675-2681, with the func of line 2721
\* for edge_betweenness and no func for the other methods (line 2718)
graphmethod(gr, name, indices) ==
    LET res == CallMethod(gr, name, indices)
    IN  IF name = name_edge_betweenness
        THEN [k \in 1..Len(indices) |-> res[indices[k] + 1]]
        ELSE res

\* _add_proxy_methods, lines 2696-2721: the proxy methods of each class that
\* the model provides
ProxyMethods(type) ==
    IF type = "vertex" THEN {name_degree} ELSE {name_is_loop, name_edge_betweenness}

RECURSIVE VertexSeq_filter(_, _, _, _)
\* VertexSeq.select, lines 2348-2365: the keyword predicates in the order kwds
VertexSeq_filter(gr, self, vs, kwds) ==
    IF kwds = <<>> THEN Selected(vs)
    ELSE LET value == Head(kwds).value
             k == VertexSeq_keyword(Head(kwds).keyword)
         IN  IF k.attr[1] = "_" /\ Slice(k.attr, 1, Len(k.attr)) \notin GraphMethods
             THEN SelectError("AttributeError")
             ELSE IF k.attr[1] # "_" /\ k.attr \notin DOMAIN gr.vattrs
             THEN SelectError("KeyError")
             ELSE LET values == IF k.attr[1] = "_"
                                THEN CallMethod(gr, Slice(k.attr, 1, Len(k.attr)), vs)
                                ELSE SeqValues(gr.vattrs, vs, k.attr)
                      narrowed == Narrow(self, vs, FilteredIdxs(values, k.func, value))
                  IN  IF narrowed.exc # "" THEN narrowed
                      ELSE VertexSeq_filter(gr, self, narrowed.indices, Tail(kwds))

\* faulty variant: the positional arguments are resolved against the whole
\* vertex set of the graph
VertexSeq_select_Absolute(gr, self, args, kwds) ==
    LET vs == core_select(AllIndices(gr.n), args)
    IN  IF vs.exc # "" THEN vs ELSE VertexSeq_filter(gr, self, vs.indices, kwds)

\* VertexSeq.select(self, *args, **kwds), lines 2337-2367
VertexSeq_select(gr, self, args, kwds) ==
    LET vs == core_select(self, args)
    IN  IF vs.exc # "" THEN vs ELSE VertexSeq_filter(gr, self, vs.indices, kwds)

\* faulty variant: a vertex sequence is taken as the positions 0 .. len-1
ensure_set_Positions(value) == 0..(Cardinality(value.items) - 1)

\* _ensure_set(value), lines 2582-2587: the absolute indices of a vertex
\* sequence, the items of any other iterable
ensure_set(value) == value.items

\* set(value) raises TypeError when value is not iterable
CanBeSet(value) == value.tag \in {"collection", "vertexseq"}

\* faulty variant: the source of the edge of the graph at each position
Sources_OfPosition(gr, indices) == [k \in 1..Len(indices) |-> gr.edges[k][1]]

\* [e.source for e in es], [e.target for e in es]
Sources(gr, indices) == [k \in 1..Len(indices) |-> gr.edges[indices[k] + 1][1]]
Targets(gr, indices) == [k \in 1..Len(indices) |-> gr.edges[indices[k] + 1][2]]

\* faulty variant: one endpoint in value is enough
WithinPositions_Either(gr, indices, value) ==
    SelectSeq([k \in 1..Len(indices) |-> k - 1],
              LAMBDA i : \/ gr.edges[indices[i + 1] + 1][1] \in value
                         \/ gr.edges[indices[i + 1] + 1][2] \in value)

\* lines 2622-2623: [i for i, e in enumerate(es) if e.source in value and e.target in value]
WithinPositions(gr, indices, value) ==
    SelectSeq([k \in 1..Len(indices) |-> k - 1],
              LAMBDA i : /\ gr.edges[indices[i + 1] + 1][1] \in value
                         /\ gr.edges[indices[i + 1] + 1][2] \in value)

\* faulty variant: only the edges that lead from set1 to set2
BetweenPositions_OneWay(gr, indices, set1, set2) ==
    SelectSeq([k \in 1..Len(indices) |-> k - 1],
              LAMBDA i : /\ gr.edges[indices[i + 1] + 1][1] \in set1
                         /\ gr.edges[indices[i + 1] + 1][2] \in set2)

\* lines 2630-2632: the edges with one endpoint in set1 and the other in set2
BetweenPositions(gr, indices, set1, set2) ==
    SelectSeq([k \in 1..Len(indices) |-> k - 1],
              LAMBDA i : \/ /\ gr.edges[indices[i + 1] + 1][1] \in set1
                            /\ gr.edges[indices[i + 1] + 1][2] \in set2
                         \/ /\ gr.edges[indices[i + 1] + 1][1] \in set2
                            /\ gr.edges[indices[i + 1] + 1][2] \in set1)

name_source == <<"_", "s", "o", "u", "r", "c", "e">>
name_from == <<"_", "f", "r", "o", "m">>
name_target == <<"_", "t", "a", "r", "g", "e", "t">>
name_to == <<"_", "t", "o">>
name_within == <<"_", "w", "i", "t", "h", "i", "n">>
name_between == <<"_", "b", "e", "t", "w", "e", "e", "n">>

RECURSIVE EdgeSeq_filter(_, _, _, _)
\* EdgeSeq.select, lines 2598-2643: the keyword predicates in the order kwds
EdgeSeq_filter(gr, self, es, kwds) ==
    IF kwds = <<>> THEN Selected(es)
    ELSE LET given == Head(kwds).value
             k == EdgeSeq_keyword(Head(kwds).keyword)
             endpoint == k.attr \in {name_source, name_from, name_target, name_to}
             structural == k.attr \in {name_within, name_between}
             method == k.attr[1] = "_" /\ ~endpoint /\ ~structural
             coerced == endpoint /\ k.op \in {op_in, op_notin}
         IN  IF method /\ Slice(k.attr, 1, Len(k.attr)) \notin GraphMethods
             THEN SelectError("AttributeError")
             ELSE IF k.attr[1] # "_" /\ k.attr \notin DOMAIN gr.eattrs
             THEN SelectError("KeyError")
             ELSE IF (coerced \/ k.attr = name_within) /\ ~CanBeSet(given)
             THEN SelectError("TypeError")
             ELSE IF k.attr = name_between /\ given.tag = "scalar"
             THEN SelectError("TypeError")
             ELSE IF k.attr = name_between /\ ValueLen(given) # 2
             THEN SelectError("ValueError")
             ELSE IF k.attr = name_between /\ given.tag # "pair"
             THEN SelectError("TypeError")
             ELSE LET value == IF coerced THEN Collection(ensure_set(given)) ELSE given
                      values == CASE k.attr \in {name_source, name_from} -> Sources(gr, es)
                                  [] k.attr \in {name_target, name_to} -> Targets(gr, es)
                                  [] method -> CallMethod(gr, Slice(k.attr, 1, Len(k.attr)), es)
                                  [] OTHER -> SeqValues(gr.eattrs, es, k.attr)
                      filtered_idxs ==
                          CASE k.attr = name_within ->
                                  WithinPositions(gr, es, ensure_set(given))
                            [] k.attr = name_between ->
                                  BetweenPositions(gr, es, given.items, given.items2)
                            [] OTHER -> FilteredIdxs(values, k.func, value)
                      narrowed == Narrow(self, es, filtered_idxs)
                  IN  IF narrowed.exc # "" THEN narrowed
                      ELSE EdgeSeq_filter(gr, self, narrowed.indices, Tail(kwds))

\* faulty variant: without keyword predicates the sequence is narrowed to
\* an empty list of positions
EdgeSeq_select_NarrowsAlways(gr, self, args, kwds) ==
    LET es == core_select(self, args)
    IN  IF es.exc # "" THEN es
        ELSE IF kwds = <<>> THEN Narrow(self, es.indices, <<>>)
        ELSE EdgeSeq_filter(gr, self, es.indices, kwds)

\* EdgeSeq.select(self, *args, **kwds), lines 2580-2645
EdgeSeq_select(gr, self, args, kwds) ==
    LET es == core_select(self, args)
    IN  IF es.exc # "" THEN es ELSE EdgeSeq_filter(gr, self, es.indices, kwds)

\* faulty variant: the keyword predicates are applied to the receiver and
\* the positional arguments are resolved in what they leave
Seq_select_KeywordsFirst(type, gr, self, args, kwds) ==
    LET filtered == IF type = "vertex" THEN VertexSeq_filter(gr, self, self, kwds)
                    ELSE EdgeSeq_filter(gr, self, self, kwds)
    IN  IF filtered.exc # "" THEN filtered ELSE core_select(filtered.indices, args)

\* select of a sequence of the given type
Seq_select(type, gr, self, args, kwds) ==
    IF type = "vertex" THEN VertexSeq_select(gr, self, args, kwds)
    ELSE EdgeSeq_select(gr, self, args, kwds)

(***************************************************************************)
(* A client that narrows a sequence of a graph call after call.             *)
(***************************************************************************)
attr_x == <<"x">>
attr_y == <<"y">>
attr_z == <<"z">>

Keyword(attr, op) == attr \o <<"_">> \o op

Pred(keyword, value) == [keyword |-> keyword, value |-> value]

\* the keyword predicates the client uses: every operator on the attribute
\* x, one on y, one on z, an attribute the graph does not have, one on the
\* method degree and one on the source of an edge
Predicates ==
    {Pred(attr_x, Scalar(0)), Pred(attr_x, Scalar(1)),
     Pred(Keyword(attr_x, op_ne), Scalar(1)),
     Pred(Keyword(attr_x, op_lt), Scalar(1)),
     Pred(Keyword(attr_x, op_gt), Scalar(0)),
     Pred(Keyword(attr_x, op_le), Scalar(0)),
     Pred(Keyword(attr_x, op_ge), Scalar(1)),
     Pred(Keyword(attr_x, op_in), Collection({0})),
     Pred(Keyword(attr_x, op_notin), Collection({0})),
     Pred(Keyword(attr_y, op_eq), Scalar(1)),
     Pred(attr_z, Scalar(0)),
     Pred(Keyword(<<"_">> \o name_degree, op_ge), Scalar(2)),
     Pred(name_source, Scalar(0))}

\* **kwds in the order the dict yields them: one or two predicates
KeywordLists ==
    {<<p>> : p \in Predicates}
    \cup {<<pq[1], pq[2]>> : pq \in {r \in Predicates \X Predicates : r[1].keyword # r[2].keyword}}

\* *args for a receiver of len entities: nothing, None, bare integers or one
\* iterable of integers; the integer len is out of range
PositionalArgs(len) ==
    {NoArgs, NoneArg}
    \cup {Ints(l) : l \in SeqsUpTo(0..len, MaxArgs) \ {<<>>}}
    \cup {Iterable(l) : l \in SeqsUpTo(0..len, MaxArgs)}

\* a ring of k vertices: edge i joins vertex i and vertex i + 1
Ring(k) == [i \in 1..k |-> <<i - 1, i % k>>]

SelectGraph(xcol) ==
    LET cols == [a \in {attr_x, attr_y} |->
                    IF a = attr_x THEN xcol ELSE [i \in 1..NumVertices |-> (i - 1) % 2]]
    IN  [n |-> NumVertices, edges |-> Ring(NumVertices), directed |-> FALSE,
         vattrs |-> cols, eattrs |-> cols]

\* g.vs or g.es of a graph whose attribute x holds any column of 0s and 1s
InitSelect ==
    /\ \E xcol \in [1..NumVertices -> {0, 1}] : sg = SelectGraph(xcol)
    /\ seq_type \in {"vertex", "edge"}
    /\ sel_seq = AllIndices(NumVertices)
    /\ ret = Selected(<<>>)

IdleSelect ==
    /\ sg = NoGraph
    /\ seq_type = "vertex"
    /\ sel_seq = <<>>
    /\ ret = Selected(<<>>)

\* seq = seq.select(*args): positional arguments only; the client keeps its
\* sequence when select raises
SelectPositional ==
    /\ \E args \in PositionalArgs(Len(sel_seq)) :
        ret' = Seq_select(seq_type, sg, sel_seq, args, <<>>)
    /\ sel_seq' = IF ret'.exc = "" THEN ret'.indices ELSE sel_seq
    /\ UNCHANGED <<sg, seq_type, dlVars, opVars, qVars, kwVars, extVars>>

\* seq = seq.select(**kwds): keyword predicates only
SelectKeywords ==
    /\ \E kwds \in KeywordLists :
        ret' = Seq_select(seq_type, sg, sel_seq, NoArgs, kwds)
    /\ sel_seq' = IF ret'.exc = "" THEN ret'.indices ELSE sel_seq
    /\ UNCHANGED <<sg, seq_type, dlVars, opVars, qVars, kwVars, extVars>>

NextSelect ==
    \/ SelectPositional
    \/ SelectKeywords

(***************************************************************************)
(* A client that narrows a sequence, filters it on a computation of the    *)
(* graph and at last calls a proxy method on it.                           *)
(***************************************************************************)
\* no proxy method called, nothing assigned
NoProxyCall == [name |-> <<>>, on |-> <<>>, values |-> <<>>]
NoWrite == [attr |-> <<>>, on |-> <<>>, kind |-> "none", list |-> <<>>]

\* three vertices; edge 1 is a loop on vertex 1
DelegateGraph ==
    [n |-> 3, edges |-> <<<<0, 1>>, <<1, 1>>, <<1, 2>>>>, directed |-> FALSE,
     vattrs |-> EmptyDict, eattrs |-> EmptyDict]

name_nosuch == <<"n", "o", "s", "u", "c", "h">>

Method(name) == <<"_">> \o name

\* the predicates on computations of the graph that the client uses
MethodPredicates(type) ==
    IF type = "vertex"
    THEN {Pred(Method(name_degree), Scalar(1)),
          Pred(Keyword(Method(name_degree), op_gt), Scalar(1)),
          Pred(Method(name_nosuch), Scalar(0))}
    ELSE {Pred(Method(name_is_loop), Scalar(1)),
          Pred(Keyword(Method(name_is_loop), op_ne), Scalar(1)),
          Pred(Method(name_edge_betweenness), Scalar(0)),
          Pred(Keyword(Method(name_edge_betweenness), op_ge), Scalar(1)),
          Pred(Method(name_nosuch), Scalar(0))}

\* g.vs or g.es of the graph; the graph computes any edge betweenness
InitDelegate ==
    /\ sg = DelegateGraph
    /\ seq_type \in {"vertex", "edge"}
    /\ sel_seq = AllIndices(3)
    /\ ret = Selected(<<>>)
    /\ edge_btw \in [1..3 -> {0, 1}]
    /\ proxy_ret = NoProxyCall
    /\ written = NoWrite

\* seq = seq.select(*args)
DelegateNarrow ==
    /\ proxy_ret = NoProxyCall
    /\ SelectPositional

\* seq = seq.select(_method_op=value)
SelectMethod ==
    /\ proxy_ret = NoProxyCall
    /\ \E p \in MethodPredicates(seq_type) :
        ret' = Seq_select(seq_type, sg, sel_seq, NoArgs, <<p>>)
    /\ sel_seq' = IF ret'.exc = "" THEN ret'.indices ELSE sel_seq
    /\ UNCHANGED <<sg, seq_type, dlVars, opVars, qVars, kwVars, extVars>>

\* seq.degree(), seq.is_loop(), seq.edge_betweenness()
CallProxy ==
    /\ proxy_ret = NoProxyCall
    /\ \E name \in ProxyMethods(seq_type) :
        proxy_ret' = [name |-> name, on |-> sel_seq, values |-> graphmethod(sg, name, sel_seq)]
    /\ UNCHANGED <<selVars, dlVars, opVars, qVars, kwVars, edge_btw, written>>

NextDelegate ==
    \/ DelegateNarrow
    \/ SelectMethod
    \/ CallProxy

(***************************************************************************)
(* Attribute access through a sequence: seq[attr] and seq[attr] = value.   *)
(* An assigned value is a list, or a scalar or string taken as a list of   *)
(* length 1.                                                               *)
(***************************************************************************)
ListValue(l) == [kind |-> "list", list |-> l]
ScalarValue(v) == [kind |-> "scalar", list |-> <<v>>]

\* faulty variant: a short list is not reused, its last value fills the rest
WriteEach_NoReuse(col, indices, values, k) ==
    [j \in 1..Len(col) |->
        IF \E i \in 1..Len(indices) : indices[i] = j - 1
        THEN LET last == CHOOSE i \in 1..Len(indices) :
                            indices[i] = j - 1 /\ \A i2 \in 1..Len(indices) : indices[i2] = j - 1 => i2 <= i
             IN  values[IF last <= Len(values) THEN last ELSE Len(values)]
        ELSE col[j]]

RECURSIVE WriteEach(_, _, _, _)
\* the entity at position k - 1 and after of the sequence gets the value of
\* its position, the values reused cyclically
WriteEach(col, indices, values, k) ==
    IF k > Len(indices) THEN col
    ELSE WriteEach(ListSet(col, indices[k], values[((k - 1) % Len(values)) + 1]),
                   indices, values, k + 1)

\* faulty variant: the values are stored at the positions 0 .. len-1 of the column
SeqSetAttr_AtPositions(attrs, len, indices, attr, value) ==
    [a \in DOMAIN attrs \cup {attr} |->
        IF a = attr
        THEN WriteEach(IF attr \in DOMAIN attrs THEN attrs[attr] ELSE Nones(len),
                       [k \in 1..Len(indices) |-> k - 1], value.list, 1)
        ELSE attrs[a]]

\* seq[attr] = value on the column store of the scope; a new column is null-filled
SeqSetAttr(attrs, len, indices, attr, value) ==
    [a \in DOMAIN attrs \cup {attr} |->
        IF a = attr
        THEN WriteEach(IF attr \in DOMAIN attrs THEN attrs[attr] ELSE Nones(len),
                       indices, value.list, 1)
        ELSE attrs[a]]

\* seq[attr] = value for a vertex or an edge sequence of the graph
Seq_setitem(type, gr, indices, attr, value) ==
    IF type = "vertex"
    THEN [gr EXCEPT !.vattrs = SeqSetAttr(gr.vattrs, gr.n, indices, attr, value)]
    ELSE [gr EXCEPT !.eattrs = SeqSetAttr(gr.eattrs, Len(gr.edges), indices, attr, value)]

\* seq[attr] for a vertex or an edge sequence of the graph
Seq_getitem(type, gr, indices, attr) ==
    SeqValues(IF type = "vertex" THEN gr.vattrs ELSE gr.eattrs, indices, attr)

attr_weight == <<"w", "e", "i", "g", "h", "t">>

\* lines 2199-2204: the weights of the three vertices, and of the three edges
InitialWeights == <<0, 2, 6>>

AttrGraph ==
    [n |-> 3, edges |-> <<<<0, 1>>, <<0, 2>>, <<1, 2>>>>, directed |-> FALSE,
     vattrs |-> [a \in {attr_weight} |-> InitialWeights],
     eattrs |-> [a \in {attr_weight} |-> InitialWeights]]

\* what the client assigns: a scalar, or a list of one or two values
AssignedValues ==
    {ScalarValue(v) : v \in {10, 20}}
    \cup {ListValue(l) : l \in SeqsUpTo({10, 20}, 2) \ {<<>>}}

InitAttr ==
    /\ sg = AttrGraph
    /\ seq_type \in {"vertex", "edge"}
    /\ sel_seq = AllIndices(3)
    /\ ret = Selected(<<>>)
    /\ edge_btw = <<>>
    /\ proxy_ret = NoProxyCall
    /\ written = NoWrite

\* seq = seq.select(*args)
AttrNarrow ==
    /\ written = NoWrite
    /\ proxy_ret = NoProxyCall
    /\ SelectPositional

\* seq["weight"] = value, the list no longer than the sequence
WriteAttr ==
    /\ written = NoWrite
    /\ proxy_ret = NoProxyCall
    /\ \E value \in AssignedValues :
        /\ value.kind = "scalar" \/ Len(value.list) <= Len(sel_seq)
        /\ sg' = Seq_setitem(seq_type, sg, sel_seq, attr_weight, value)
        /\ written' = [attr |-> attr_weight, on |-> sel_seq, kind |-> value.kind,
                       list |-> value.list]
    /\ UNCHANGED <<seq_type, sel_seq, ret, dlVars, opVars, qVars, kwVars, edge_btw, proxy_ret>>

\* seq["weight"]
ReadAttr ==
    /\ proxy_ret = NoProxyCall
    /\ proxy_ret' = [name |-> attr_weight, on |-> sel_seq,
                     values |-> Seq_getitem(seq_type, sg, sel_seq, attr_weight)]
    /\ UNCHANGED <<selVars, dlVars, opVars, qVars, kwVars, edge_btw, written>>

NextAttribute ==
    \/ AttrNarrow
    \/ WriteAttr
    \/ ReadAttr

(***************************************************************************)
(* The keyword grammar: one keyword name, cut by both classes.             *)
(***************************************************************************)
MaxPieces == 4

Pieces == operators \cup {<<"_">>, <<"x">>, <<"n", "o">>}

RECURSIVE Concat(_)
Concat(ps) == IF ps = <<>> THEN <<>> ELSE Head(ps) \o Concat(Tail(ps))

\* the non-empty keyword names made of at most MaxPieces pieces
Keywords == {Concat(ps) : ps \in SeqsUpTo(Pieces, MaxPieces) \ {<<>>}}

NoSplit == [attr |-> <<>>, op |-> <<>>, func |-> <<>>]

InitKeyword ==
    /\ kw_name \in Keywords
    /\ split_vs = NoSplit
    /\ split_es = NoSplit

IdleKeyword ==
    /\ kw_name = <<>>
    /\ split_vs = NoSplit
    /\ split_es = NoSplit

SplitVertexSeq ==
    /\ split_vs = NoSplit
    /\ split_vs' = VertexSeq_keyword(kw_name)
    /\ UNCHANGED <<kw_name, split_es, dlVars, opVars, qVars, selVars, extVars>>

SplitEdgeSeq ==
    /\ split_es = NoSplit
    /\ split_es' = EdgeSeq_keyword(kw_name)
    /\ UNCHANGED <<kw_name, split_vs, dlVars, opVars, qVars, selVars, extVars>>

NextKeyword ==
    \/ SplitVertexSeq
    \/ SplitEdgeSeq

(***************************************************************************)
(* Structural operations of GraphBase on a graph value.  An operation      *)
(* that can fail hands back [exc, g]: the exception raised ("" for none)   *)
(* and the graph after the call, which is the graph before it when the     *)
(* call raised.                                                            *)
(***************************************************************************)
Done(gr) == [exc |-> "", g |-> gr]
Failed(exc, gr) == [exc |-> exc, g |-> gr]

\* g.copy(): an independent graph object with the same content
copy(gr) == gr

\* GraphBase.add_vertices(k) as the operators call it: k < 0 is rejected
add_vertices_checked(gr, k) ==
    IF k < 0 THEN Failed("InternalError", gr) ELSE Done(add_vertices(gr, k))

RECURSIVE add_edge_list(_, _)
\* GraphBase.add_edges(pairs): the edges are appended in the order given;
\* an endpoint that is not a vertex of the graph is rejected
add_edge_list(gr, pairs) ==
    IF pairs = <<>> THEN Done(gr)
    ELSE IF \E side \in {1, 2} : Head(pairs)[side] < 0 \/ Head(pairs)[side] >= vcount(gr)
    THEN Failed("InternalError", gr)
    ELSE LET rest == add_edge_list(add_edges(gr, Head(pairs)), Tail(pairs))
         IN  IF rest.exc # "" THEN Failed(rest.exc, gr) ELSE rest

\* the graph without the edges whose ids are in S; the other edges keep
\* their order and their attribute values
RemoveEdges(gr, S) ==
    LET kept == SelectSeq(AllIndices(ecount(gr)), LAMBDA e : e \notin S)
    IN  [gr EXCEPT
            !.edges = [k \in 1..Len(kept) |-> gr.edges[kept[k] + 1]],
            !.eattrs = [a \in DOMAIN gr.eattrs |->
                           [k \in 1..Len(kept) |-> gr.eattrs[a][kept[k] + 1]]]]

\* the edge ids that join the vertices of pair: in the direction given for
\* a directed graph, in either direction otherwise
EidsOf(gr, pair) ==
    {e \in 0..(ecount(gr) - 1) :
        \/ gr.edges[e + 1] = pair
        \/ ~gr.directed /\ gr.edges[e + 1] = <<pair[2], pair[1]>>}

\* Graph.get_eid(s, t): the lowest id of an edge that joins s and t
get_eid(gr, pair) == CHOOSE e \in EidsOf(gr, pair) : \A e2 \in EidsOf(gr, pair) : e <= e2

\* edge specifications, lines 153-158: None, one integer, an iterable of
\* integers (edge ids), an iterable of 2-tuples (source-target pairs), an
\* edge sequence
NoneSpec == [kind |-> "none", ids |-> <<>>, pairs |-> <<>>]
IntSpec(i) == [kind |-> "int", ids |-> <<i>>, pairs |-> <<>>]
IdsSpec(l) == [kind |-> "ids", ids |-> l, pairs |-> <<>>]
PairsSpec(l) == [kind |-> "pairs", ids |-> <<>>, pairs |-> l]
EdgeSeqSpec(l) == [kind |-> "edgeseq", ids |-> l, pairs |-> <<>>]

\* GraphBase.delete_edges(spec), lines 153-158: None deletes all edges, ids
\* delete the edges they denote, a source-target pair deletes one of the
\* edges that join the two vertices
GraphBase_delete_edges(gr, spec) ==
    CASE spec.kind = "none" -> Done(RemoveEdges(gr, 0..(ecount(gr) - 1)))
      [] spec.kind = "pairs" ->
            IF \A k \in 1..Len(spec.pairs) : EidsOf(gr, spec.pairs[k]) # {}
            THEN Done(RemoveEdges(gr, {get_eid(gr, spec.pairs[k]) : k \in 1..Len(spec.pairs)}))
            ELSE Failed("InternalError", gr)
      [] OTHER ->
            IF \A k \in 1..Len(spec.ids) : 0 <= spec.ids[k] /\ spec.ids[k] < ecount(gr)
            THEN Done(RemoveEdges(gr, ToSet(spec.ids)))
            ELSE Failed("InternalError", gr)

\* GraphBase.delete_vertices(vids): the vertices and their edges are
\* removed, the remaining vertices are renumbered in their order
GraphBase_delete_vertices(gr, vids) ==
    IF \E k \in 1..Len(vids) : vids[k] < 0 \/ vids[k] >= vcount(gr)
    THEN Failed("InternalError", gr)
    ELSE LET gone == ToSet(vids)
             keptV == SelectSeq(AllIndices(vcount(gr)), LAMBDA v : v \notin gone)
             newid == [v \in 0..(vcount(gr) - 1) |->
                          Cardinality({u \in 0..(v - 1) : u \notin gone})]
             keptE == SelectSeq(AllIndices(ecount(gr)),
                                LAMBDA e : gr.edges[e + 1][1] \notin gone
                                           /\ gr.edges[e + 1][2] \notin gone)
         IN  Done([n |-> Len(keptV),
                   edges |-> [k \in 1..Len(keptE) |->
                                 <<newid[gr.edges[keptE[k] + 1][1]],
                                   newid[gr.edges[keptE[k] + 1][2]]>>],
                   directed |-> gr.directed,
                   vattrs |-> [a \in DOMAIN gr.vattrs |->
                                  [k \in 1..Len(keptV) |-> gr.vattrs[a][keptV[k] + 1]]],
                   eattrs |-> [a \in DOMAIN gr.eattrs |->
                                  [k \in 1..Len(keptE) |-> gr.eattrs[a][keptE[k] + 1]]]])

\* the edges of el with every vertex id raised by offset
Shifted(el, offset) == [k \in 1..Len(el) |-> <<el[k][1] + offset, el[k][2] + offset>>]

RECURSIVE disjoint_union(_, _)
\* GraphBase.disjoint_union(others): the vertices and edges of the graph
\* followed by those of each other graph, renumbered; attribute columns
\* are not carried over
disjoint_union(gr, others) ==
    IF others = <<>>
    THEN [gr EXCEPT !.vattrs = EmptyDict, !.eattrs = EmptyDict]
    ELSE LET first == Head(others)
         IN  disjoint_union([n |-> gr.n + first.n,
                             edges |-> gr.edges \o Shifted(first.edges, gr.n),
                             directed |-> gr.directed,
                             vattrs |-> EmptyDict, eattrs |-> EmptyDict],
                            Tail(others))

\* GraphBase.difference(other): the edges of the graph that other does not have
difference(gr, other) ==
    LET kept == SelectSeq(AllIndices(ecount(gr)),
                          LAMBDA e : gr.edges[e + 1] \notin ToSet(other.edges))
    IN  [n |-> gr.n, edges |-> [k \in 1..Len(kept) |-> gr.edges[kept[k] + 1]],
         directed |-> gr.directed, vattrs |-> EmptyDict, eattrs |-> EmptyDict]

(***************************************************************************)
(* Graph.delete_edges and the operators of Graph (lines 142-167 and        *)
(* 1765-1900).                                                             *)
(***************************************************************************)
\* a callable as the first positional argument of delete_edges, given by
\* the ids of the edges it returns True for
CallableSpec(l) == [kind |-> "callable", ids |-> l, pairs |-> <<>>]

\* *args of delete_edges as the positional arguments of select; the core
\* select takes None, a callable, integers or an iterable of integers
AsSelectArgs(args) ==
    IF args = <<>> THEN NoArgs
    ELSE CASE args[1].kind = "none" -> NoneArg
           [] args[1].kind = "int" -> Ints(args[1].ids)
           [] args[1].kind = "callable" -> Callable(args[1].ids)
           [] OTHER -> Iterable(args[1].ids)

\* GraphBase.delete_edges(edge_seq) for the outcome edge_seq of self.es(...):
\* an exception of select leaves delete_edges
DeleteDerived(gr, edge_seq) ==
    IF edge_seq.exc # "" THEN Failed(edge_seq.exc, gr)
    ELSE GraphBase_delete_edges(gr, EdgeSeqSpec(edge_seq.indices))

\* faulty variant: a positional argument is taken as the edge specification
\* also when keyword arguments are present
Graph_delete_edges_IgnoresKeywords(gr, args, kwds) ==
    IF Len(args) = 0 /\ Len(kwds) = 0 THEN Failed("ValueError", gr)
    ELSE IF Len(args) = 0
    THEN GraphBase_delete_edges(gr, EdgeSeqSpec(AllIndices(ecount(gr))))
    ELSE GraphBase_delete_edges(gr, args[1])

\* Graph.delete_edges(self, *args, **kwds), lines 160-167
Graph_delete_edges(gr, args, kwds) ==
    IF Len(args) = 0 /\ Len(kwds) = 0 THEN Failed("ValueError", gr)
    ELSE IF Len(kwds) > 0 \/ args[1].kind = "callable"
    THEN DeleteDerived(gr, EdgeSeq_select(gr, AllIndices(ecount(gr)), AsSelectArgs(args), kwds))
    ELSE GraphBase_delete_edges(gr, args[1])

\* operands of the operators: an integer, a tuple of vertex ids, a list of
\* tuples, of integers or of graphs, a graph, or an object of another type
IntOp(k) == [kind |-> "int", k |-> k, elem |-> "", ints |-> <<>>, pairs |-> <<>>, graphs |-> <<>>]
TupleOp(t) == [kind |-> "tuple", k |-> 0, elem |-> "", ints |-> t, pairs |-> <<>>, graphs |-> <<>>]
TupleList(l) ==
    [kind |-> "list", k |-> 0, elem |-> IF l = <<>> THEN "" ELSE "tuple",
     ints |-> <<>>, pairs |-> l, graphs |-> <<>>]
IntList(l) ==
    [kind |-> "list", k |-> 0, elem |-> IF l = <<>> THEN "" ELSE "int",
     ints |-> l, pairs |-> <<>>, graphs |-> <<>>]
GraphList(l) ==
    [kind |-> "list", k |-> 0, elem |-> IF l = <<>> THEN "" ELSE "graph",
     ints |-> <<>>, pairs |-> <<>>, graphs |-> l]
GraphOp(gr) == [kind |-> "graph", k |-> 0, elem |-> "", ints |-> <<>>, pairs |-> <<>>, graphs |-> <<gr>>]
OtherOp == [kind |-> "other", k |-> 0, elem |-> "", ints |-> <<>>, pairs |-> <<>>, graphs |-> <<>>]

\* what an operator hands back: a graph object (self: the receiver itself,
\* otherwise a new object with the content val), NotImplemented, or an
\* exception; recv is the content of the receiver after the call
OpRet(kind, val, self, recv) == [kind |-> kind, val |-> val, self |-> self, recv |-> recv]
NotImplemented(gr) == OpRet("NotImplemented", NoGraph, FALSE, gr)

\* a structural method called on a copy of gr; the method returns the
\* graph it was called on
OnCopy(gr, r) ==
    IF r.exc # "" THEN OpRet("error", NoGraph, FALSE, gr) ELSE OpRet("graph", r.g, FALSE, gr)

\* a structural method called on gr itself
InPlace(gr, r) ==
    IF r.exc # "" THEN OpRet("error", NoGraph, FALSE, gr) ELSE OpRet("graph", r.g, TRUE, r.g)

\* Graph(): the default number of vertices is 1 (line 108)
Graph_default == Graph_init(1, <<>>, FALSE, EmptyDict, EmptyDict)

\* a tuple of two integers handed to GraphBase.delete_edges as it is: an
\* iterable of integers, which denotes edge ids (line 155)
TupleAsSpec(t) == IdsSpec(t)

\* Graph.__iadd__, lines 1765-1781
Graph_iadd(gr, other) ==
    CASE other.kind = "int" -> InPlace(gr, add_vertices_checked(gr, other.k))
      [] other.kind = "tuple" /\ Len(other.ints) = 2 ->
            InPlace(gr, add_edge_list(gr, <<other.ints>>))
      [] other.kind = "list" /\ other.elem = "" -> OpRet("graph", gr, TRUE, gr)
      [] other.kind = "list" /\ other.elem = "tuple" -> InPlace(gr, add_edge_list(gr, other.pairs))
      [] OTHER -> NotImplemented(gr)

\* Graph.__add__, lines 1784-1817
Graph_add(gr, other) ==
    CASE other.kind = "int" -> OnCopy(gr, add_vertices_checked(copy(gr), other.k))
      [] other.kind = "tuple" /\ Len(other.ints) = 2 ->
            OnCopy(gr, add_edge_list(copy(gr), <<other.ints>>))
      [] other.kind = "list" /\ other.elem = "" -> OpRet("graph", copy(gr), FALSE, gr)
      [] other.kind = "list" /\ other.elem = "tuple" ->
            OnCopy(gr, add_edge_list(copy(gr), other.pairs))
      [] other.kind = "list" /\ other.elem = "graph" ->
            OpRet("graph", disjoint_union(gr, other.graphs), FALSE, gr)
      [] other.kind = "graph" -> OpRet("graph", disjoint_union(gr, other.graphs), FALSE, gr)
      [] OTHER -> NotImplemented(gr)

\* Graph.__isub__, lines 1820-1844, for integers, tuples and lists
Graph_isub(gr, other) ==
    CASE other.kind = "int" -> InPlace(gr, GraphBase_delete_vertices(gr, <<other.k>>))
      [] other.kind = "tuple" /\ Len(other.ints) = 2 ->
            InPlace(gr, Graph_delete_edges(gr, <<PairsSpec(<<other.ints>>)>>, <<>>))
      [] other.kind = "list" /\ other.elem = "" -> OpRet("graph", gr, TRUE, gr)
      [] other.kind = "list" /\ other.elem = "tuple" ->
            InPlace(gr, Graph_delete_edges(gr, <<PairsSpec(other.pairs)>>, <<>>))
      [] other.kind = "list" /\ other.elem = "int" ->
            InPlace(gr, GraphBase_delete_vertices(gr, other.ints))
      [] OTHER -> NotImplemented(gr)

\* Graph.__sub__, lines 1847-1880, for integers, tuples, lists and graphs
Graph_sub(gr, other) ==
    CASE other.kind = "int" -> OnCopy(gr, GraphBase_delete_vertices(copy(gr), <<other.k>>))
      [] other.kind = "tuple" /\ Len(other.ints) = 2 ->
            OnCopy(gr, Graph_delete_edges(copy(gr), <<TupleAsSpec(other.ints)>>, <<>>))
      [] other.kind = "list" /\ other.elem = "" -> OpRet("graph", copy(gr), FALSE, gr)
      [] other.kind = "list" /\ other.elem = "tuple" ->
            OnCopy(gr, Graph_delete_edges(copy(gr), <<PairsSpec(other.pairs)>>, <<>>))
      [] other.kind = "list" /\ other.elem = "int" ->
            OnCopy(gr, GraphBase_delete_vertices(copy(gr), other.ints))
      [] other.kind = "graph" -> OpRet("graph", difference(gr, other.graphs[1]), FALSE, gr)
      [] OTHER -> NotImplemented(gr)

\* [self] * k
Repeat(gr, k) == [i \in 1..k |-> gr]

\* Graph.__mul__, lines 1882-1900
Graph_mul(gr, other) ==
    IF other.kind = "int"
    THEN CASE other.k = 0 -> OpRet("graph", Graph_default, FALSE, gr)
           [] other.k = 1 -> OpRet("graph", gr, TRUE, gr)
           [] other.k > 1 ->
                OpRet("graph", disjoint_union(gr, Repeat(gr, other.k - 1)), FALSE, gr)
           [] OTHER -> NotImplemented(gr)
    ELSE NotImplemented(gr)

(***************************************************************************)
(* A client that holds a graph g (object 1 of the heap), applies one       *)
(* operator or one call of delete_edges to it, and then changes the graph  *)
(* it was handed.                                                          *)
(***************************************************************************)
MaxOpVertices == 3
MaxOpEdges == 2
MaxOperandLen == 2

attr_name == <<"n", "a", "m", "e">>

\* the source-target pairs over k vertices, the source not above the target
PairsOver(k) == {p \in (0..(k - 1)) \X (0..(k - 1)) : p[1] <= p[2]}

\* a graph of k vertices named 0, 1, ... with the edges el weighted 0, 10, ...
OpGraph(k, el, directed) ==
    [n |-> k, edges |-> el, directed |-> directed,
     vattrs |-> [a \in {attr_name} |-> [i \in 1..k |-> i - 1]],
     eattrs |-> [a \in {attr_weight} |-> [j \in 1..Len(el) |-> 10 * (j - 1)]]]

OpGraphs ==
    UNION {{OpGraph(k, el, d) : el \in SeqsUpTo(PairsOver(k), MaxOpEdges), d \in BOOLEAN} :
           k \in 0..MaxOpVertices}

\* the graphs g is combined with
OtherGraphs == {OpGraph(1, <<>>, FALSE), OpGraph(2, <<(<<0, 1>>)>>, FALSE)}

Operands ==
    {IntOp(k) : k \in (-1)..MaxOpVertices}
    \cup {TupleOp(t) : t \in (0..(MaxOpVertices - 1)) \X (0..(MaxOpVertices - 1))}
    \cup {TupleOp(<<0, 1, 2>>), OtherOp}
    \cup {TupleList(l) : l \in SeqsUpTo({<<0, 0>>, <<0, 1>>, <<1, 2>>}, MaxOperandLen)}
    \cup {IntList(l) : l \in SeqsUpTo(0..MaxOpVertices, MaxOperandLen)}
    \cup {GraphOp(h) : h \in OtherGraphs}
    \cup {GraphList(<<h>>) : h \in OtherGraphs}

\* *args of delete_edges: nothing, or one edge specification or callable
DeleteArgs ==
    {<<>>, <<NoneSpec>>}
    \cup {<<IntSpec(i)>> : i \in 0..MaxOpEdges}
    \cup {<<IdsSpec(l)>> : l \in SeqsUpTo(0..1, MaxOperandLen)}
    \cup {<<PairsSpec(l)>> : l \in SeqsUpTo({<<0, 1>>, <<1, 2>>}, MaxOperandLen) \ {<<>>}}
    \cup {<<CallableSpec(l)>> : l \in {<<>>, <<0>>, <<1>>, <<0, 1>>}}
    \cup {<<EdgeSeqSpec(l)>> : l \in {<<1>>, <<1, 0>>}}

\* **kwds of delete_edges: nothing or one predicate
DeleteKeywords ==
    {<<>>, <<Pred(name_source, Scalar(0))>>,
     <<Pred(Keyword(name_target, op_ge), Scalar(2))>>,
     <<Pred(attr_weight, Scalar(10))>>,
     <<Pred(attr_x, Scalar(0))>>}

\* select takes the positional argument of delete_edges when it is None, a
\* callable, an integer or an iterable of integers
Selectable(args) ==
    IF args = <<>> THEN TRUE ELSE args[1].kind \in {"none", "int", "ids", "callable"}

NoCall ==
    [op |-> "none", other |-> OtherOp, args |-> <<>>, kwds |-> <<>>, before |-> NoGraph,
     mutated |-> FALSE]
NoOpRet == [kind |-> "none", obj |-> 0, exc |-> ""]

IdleOps ==
    /\ heap = <<>>
    /\ opcall = NoCall
    /\ opret = NoOpRet

InitOperators ==
    /\ heap \in {<<gr>> : gr \in OpGraphs}
    /\ opcall = NoCall
    /\ opret = NoOpRet

\* the binary operator op applied to the graph gr and the operand other
ApplyBinary(op, gr, other) ==
    CASE op = "add" -> Graph_add(gr, other)
      [] op = "sub" -> Graph_sub(gr, other)
      [] op = "mul" -> Graph_mul(gr, other)

\* the in-place operator op applied to the graph gr and the operand other
ApplyInPlace(op, gr, other) ==
    CASE op = "iadd" -> Graph_iadd(gr, other)
      [] op = "isub" -> Graph_isub(gr, other)

\* the heap and the result after g op other handed back r: a graph that is
\* not the receiver is a new object
Operated(op, other, r) ==
    /\ heap' = IF r.kind = "graph" /\ ~r.self THEN <<r.recv, r.val>> ELSE <<r.recv>>
    /\ opret' = [kind |-> r.kind,
                 obj |-> IF r.kind # "graph" THEN 0 ELSE IF r.self THEN 1 ELSE 2,
                 exc |-> ""]
    /\ opcall' = [op |-> op, other |-> other, args |-> <<>>, kwds |-> <<>>,
                  before |-> heap[1], mutated |-> FALSE]

\* h = g + other, h = g - other, h = g * other
BinaryOperator ==
    /\ opcall = NoCall
    /\ \E op \in {"add", "sub", "mul"} : \E other \in Operands :
        Operated(op, other, ApplyBinary(op, heap[1], other))
    /\ UNCHANGED <<dlVars, selVars, kwVars, extVars, qVars>>

\* g += other, g -= other
InPlaceOperator ==
    /\ opcall = NoCall
    /\ \E op \in {"iadd", "isub"} : \E other \in Operands :
        Operated(op, other, ApplyInPlace(op, heap[1], other))
    /\ UNCHANGED <<dlVars, selVars, kwVars, extVars, qVars>>

\* the heap and the result after g.delete_edges(*args, **kwds) ended as r
Deleted(args, kwds, r) ==
    /\ heap' = <<r.g>>
    /\ opret' = [kind |-> IF r.exc = "" THEN "graph" ELSE "error",
                 obj |-> IF r.exc = "" THEN 1 ELSE 0, exc |-> r.exc]
    /\ opcall' = [op |-> "delete_edges", other |-> OtherOp, args |-> args,
                  kwds |-> kwds, before |-> heap[1], mutated |-> FALSE]

\* g.delete_edges(*args, **kwds)
DeleteEdges ==
    /\ opcall = NoCall
    /\ \E args \in DeleteArgs : \E kwds \in DeleteKeywords :
        /\ kwds # <<>> => Selectable(args)
        /\ Deleted(args, kwds, Graph_delete_edges(heap[1], args, kwds))
    /\ UNCHANGED <<dlVars, selVars, kwVars, extVars, qVars>>

\* h.add_vertices(1) on the graph a binary operator handed back
MutateResult ==
    /\ opcall.op \in {"add", "sub", "mul"}
    /\ opret.kind = "graph"
    /\ ~opcall.mutated
    /\ heap' = [heap EXCEPT ![opret.obj] = add_vertices(@, 1)]
    /\ opcall' = [opcall EXCEPT !.mutated = TRUE]
    /\ UNCHANGED <<opret, dlVars, selVars, kwVars, extVars, qVars>>

NextOperators ==
    \/ BinaryOperator
    \/ InPlaceOperator
    \/ DeleteEdges
    \/ MutateResult

(***************************************************************************)
(* Queries of a graph: Graph.eccentricity and Graph.k_core. The graph      *)
(* algorithms they call are the C core.                                    *)
(***************************************************************************)
\* the vertices an edge leads to from v (mode=OUT: along the direction of
\* the edge in a directed graph, both ways in an undirected one)
Successors(gr, v) ==
    {gr.edges[j][2] : j \in {i \in 1..Len(gr.edges) : gr.edges[i][1] = v}}
    \cup (IF gr.directed THEN {}
          ELSE {gr.edges[j][1] : j \in {i \in 1..Len(gr.edges) : gr.edges[i][2] = v}})

\* the vertices reached from v along at most k edges
RECURSIVE Within(_, _, _)
Within(gr, v, k) ==
    IF k = 0 THEN {v}
    ELSE Within(gr, v, k - 1)
         \cup UNION {Successors(gr, u) : u \in Within(gr, v, k - 1)}

\* the length of a shortest path from v to w; the number of vertices when
\* w cannot be reached from v (docstring of eccentricity, lines 287-291)
Distance(gr, v, w) ==
    IF w \in Within(gr, v, vcount(gr) - 1)
    THEN CHOOSE k \in 0..(vcount(gr) - 1) :
            w \in Within(gr, v, k) /\ \A j \in 0..(k - 1) : w \notin Within(gr, v, j)
    ELSE vcount(gr)

\* GraphBase.shortest_paths(mode=OUT): the matrix of distances
shortest_paths(gr) ==
    [i \in 1..vcount(gr) |-> [j \in 1..vcount(gr) |-> Distance(gr, i - 1, j - 1)]]

\* max(row)
max(row) == CHOOSE x \in ToSet(row) : \A y \in ToSet(row) : y <= x

\* the argument vertices of eccentricity and the arguments of k_core: None,
\* an integer, or a list (or tuple) of integers
NoneQ == [kind |-> "None", ints |-> <<>>]
IntQ(k) == [kind |-> "int", ints |-> <<k>>]
ListQ(l) == [kind |-> "list", ints |-> l]

\* what a query hands back: an exception, or a list of numbers (values), a
\* list of graphs (graphs), or the single graph graphs[1] (single)
QueryError(exc) == [exc |-> exc, single |-> FALSE, graphs |-> <<>>, values |-> <<>>]
QueryValues(l) == [exc |-> "", single |-> FALSE, graphs |-> <<>>, values |-> l]
QueryGraphs(l, single) == [exc |-> "", single |-> single, graphs |-> l, values |-> <<>>]

\* lines 304-307 of eccentricity on the list distance_maxs; an entry 1.0/x
\* is held as its denominator x
Reciprocals(distance_maxs, vids) ==
    IF vids.kind = "None"
    THEN IF \E i \in 1..Len(distance_maxs) : distance_maxs[i] = 0
         THEN QueryError("ZeroDivisionError")
         ELSE QueryValues(distance_maxs)
    ELSE IF \E i \in 1..Len(vids.ints) : vids.ints[i] >= Len(distance_maxs)
    THEN QueryError("IndexError")
    ELSE IF \E i \in 1..Len(vids.ints) : distance_maxs[vids.ints[i] + 1] = 0
    THEN QueryError("ZeroDivisionError")
    ELSE QueryValues([i \in 1..Len(vids.ints) |-> distance_maxs[vids.ints[i] + 1]])

\* Graph.eccentricity(self, vertices=None), lines 297-309
eccentricity(gr, vids) ==
    IF vcount(gr) = 0 THEN QueryValues(<<>>)
    ELSE IF vcount(gr) = 1 THEN QueryValues(<<1>>)
    ELSE Reciprocals([i \in 1..vcount(gr) |-> max(shortest_paths(gr)[i])], vids)

\* the number of edge ends at v of the edges that run inside S
DegreeIn(gr, S, v) ==
    Cardinality({j \in 1..Len(gr.edges) :
                    gr.edges[j][1] = v /\ gr.edges[j][2] \in S})
    + Cardinality({j \in 1..Len(gr.edges) :
                    gr.edges[j][2] = v /\ gr.edges[j][1] \in S})

\* the largest set of vertices inside S in which every degree is at least k
RECURSIVE Peel(_, _, _)
Peel(gr, S, k) ==
    IF \A v \in S : DegreeIn(gr, S, v) >= k THEN S
    ELSE Peel(gr, {v \in S : DegreeIn(gr, S, v) >= k}, k)

\* GraphBase.coreness(): per vertex, the largest k whose k-core holds it
coreness(gr) ==
    [i \in 1..vcount(gr) |->
        CHOOSE k \in 0..(2 * ecount(gr)) :
            /\ (i - 1) \in Peel(gr, 0..(vcount(gr) - 1), k)
            /\ (i - 1) \notin Peel(gr, 0..(vcount(gr) - 1), k + 1)]

\* GraphBase.subgraph(idxs): the graph induced by the vertices idxs
subgraph(gr, idxs) ==
    GraphBase_delete_vertices(
        gr, SelectSeq(AllIndices(vcount(gr)), LAMBDA v : v \notin ToSet(idxs))).g

\* lines 848-852 of k_core: indices.extend(arg), or indices.append(arg)
\* when arg cannot be iterated
RECURSIVE Extended(_)
Extended(args) ==
    IF args = <<>> THEN <<>> ELSE Head(args).ints \o Extended(Tail(args))

\* line 861: the vertices whose coreness is at least k
core_idxs(gr, corenesses, k) ==
    SelectSeq(AllIndices(vcount(gr)), LAMBDA vidx : corenesses[vidx + 1] >= k)

\* lines 854-865 of k_core on the list indices; args[0] of line 854 is
\* evaluated only when len(indices) > 1 is false
Cores(gr, args, indices) ==
    IF Len(indices) <= 1 /\ Len(args) = 0 THEN QueryError("IndexError")
    ELSE QueryGraphs([i \in 1..Len(indices) |->
                         subgraph(gr, core_idxs(gr, coreness(gr), indices[i]))],
                     IF Len(args) = 0 \/ Len(indices) > 1 THEN FALSE
                     ELSE args[1].kind # "list")

\* Graph.k_core(self, *args), lines 842-865
k_core(gr, args) ==
    Cores(gr, args, IF Len(args) = 0 THEN AllIndices(vcount(gr)) ELSE Extended(args))

\* the queries the client makes
MaxQueryLen == 2

VertexLists == {NoneQ} \cup {ListQ(l) : l \in SeqsUpTo(0..(MaxOpVertices - 1), MaxQueryLen)}

CoreArgs ==
    {<<>>}
    \cup {<<IntQ(k)>> : k \in 0..2}
    \cup {<<ListQ(l)>> : l \in SeqsUpTo(0..2, MaxQueryLen)}
    \cup {<<IntQ(k), IntQ(j)>> : k, j \in 0..2}
    \cup {<<IntQ(2), ListQ(<<0, 1>>)>>}

NoQuery ==
    [method |-> "none", args |-> <<>>, exc |-> "", single |-> FALSE, graphs |-> <<>>,
     values |-> <<>>]

\* the query variable after method(*args) ended as r
Queried(method, args, r) ==
    query' = [method |-> method, args |-> args, exc |-> r.exc, single |-> r.single,
              graphs |-> r.graphs, values |-> r.values]

\* g.eccentricity(vertices)
Eccentricity ==
    /\ query = NoQuery
    /\ \E vids \in VertexLists :
        Queried("eccentricity", <<vids>>, eccentricity(heap[1], vids))
    /\ UNCHANGED <<lists, cc, dlVars, selVars, kwVars, extVars, opVars>>

\* g.k_core(*args)
KCore ==
    /\ query = NoQuery
    /\ \E args \in CoreArgs : Queried("k_core", args, k_core(heap[1], args))
    /\ UNCHANGED <<lists, cc, dlVars, selVars, kwVars, extVars, opVars>>

NextQueries ==
    \/ Eccentricity
    \/ KCore

(***************************************************************************)
(* _prepare_community_comparison(comm1, comm2, remove_none), statement by  *)
(* statement. The two arguments are the list objects 1 and 2; a            *)
(* membership is a community id (a string) or None.                        *)
(***************************************************************************)
MaxMembers == 3

Members == {None, "0", "1"}

Memberships == SeqsUpTo(Members, MaxMembers)

\* _ensure_list(obj), lines 2744-2747: the content of the list handed
\* back, always a new list object: list(obj) for a plain list, and the
\* membership property of a Clustering, which copies the stored vector
ensure_list(kind, obj) == IF kind = "Clustering" THEN obj ELSE [i \in 1..Len(obj) |-> obj[i]]

\* list.reverse()
reverse(l) == [k \in 1..Len(l) |-> l[Len(l) + 1 - k]]

\* idxs_to_remove, left in the order the list comprehension produced it
idxs_to_remove_Unreversed(vec1, vec2) ==
    SelectSeq(AllIndices(Len(vec1)), LAMBDA i : vec1[i + 1] = None \/ vec2[i + 1] = None)

\* idxs_to_remove, lines 2754-2756
idxs_to_remove(vec1, vec2) ==
    reverse(SelectSeq(AllIndices(Len(vec1)),
                      LAMBDA i : vec1[i + 1] = None \/ vec2[i + 1] = None))

\* vec[i], vec[n] = vec[n], vec[i]
Swapped(vec, i, k) == [vec EXCEPT ![i + 1] = vec[k + 1], ![k + 1] = vec[i + 1]]

\* the frame of the function: the position, the arguments, the objects
\* vec1 and vec2, the rest of idxs_to_remove the loop has to visit, and n
NoFrame ==
    [pc |-> "idle", kinds |-> <<"list", "list">>, before |-> <<(<<>>), (<<>>)>>,
     remove_none |-> FALSE, vec1 |-> 0, vec2 |-> 0, todo |-> <<>>, n |-> 0, exc |-> ""]

IdleCommunity ==
    /\ lists = <<>>
    /\ cc = NoFrame

InitCommunity ==
    /\ lists \in {<<comm1, comm2>> : comm1 \in Memberships, comm2 \in Memberships}
    /\ cc \in {[NoFrame EXCEPT !.kinds = <<k1, k2>>] : k1, k2 \in {"list", "Clustering"}}

\* lines 2749-2757 and 2765 on the new lists l1 and l2: the length check,
\* and either the start of the removal or the return
Entered(remove_none, l1, l2) ==
    /\ lists' = lists \o <<l1, l2>>
    /\ cc' = [cc EXCEPT
                !.before = <<lists[1], lists[2]>>,
                !.remove_none = remove_none,
                !.vec1 = 3,
                !.vec2 = 4,
                !.pc = IF Len(l1) = Len(l2) /\ remove_none
                          /\ None \in (ToSet(l1) \cup ToSet(l2))
                       THEN "loop" ELSE "done",
                !.exc = IF Len(l1) # Len(l2) THEN "ValueError" ELSE "",
                !.todo = IF Len(l1) = Len(l2) /\ remove_none
                            /\ None \in (ToSet(l1) \cup ToSet(l2))
                         THEN idxs_to_remove(l1, l2) ELSE <<>>,
                !.n = Len(l1)]

\* the call, up to the loop of line 2758
Prepare ==
    /\ cc.pc = "idle"
    /\ lists # <<>>
    /\ \E remove_none \in BOOLEAN :
        Entered(remove_none, ensure_list(cc.kinds[1], lists[1]),
                ensure_list(cc.kinds[2], lists[2]))
    /\ UNCHANGED <<query, dlVars, selVars, kwVars, extVars, opVars>>

\* one turn of the loop, lines 2758-2761
SwapStep ==
    /\ cc.pc = "loop"
    /\ cc.todo # <<>>
    /\ lists' = [lists EXCEPT
                    ![cc.vec1] = Swapped(@, Head(cc.todo), cc.n - 1),
                    ![cc.vec2] = Swapped(@, Head(cc.todo), cc.n - 1)]
    /\ cc' = [cc EXCEPT !.n = cc.n - 1, !.todo = Tail(cc.todo)]
    /\ UNCHANGED <<query, dlVars, selVars, kwVars, extVars, opVars>>

\* del vec1[n:], del vec2[n:] and the return, lines 2762-2765
Truncate ==
    /\ cc.pc = "loop"
    /\ cc.todo = <<>>
    /\ lists' = [lists EXCEPT
                    ![cc.vec1] = SubSeq(@, 1, cc.n),
                    ![cc.vec2] = SubSeq(@, 1, cc.n)]
    /\ cc' = [cc EXCEPT !.pc = "done"]
    /\ UNCHANGED <<query, dlVars, selVars, kwVars, extVars, opVars>>

NextCommunity ==
    \/ Prepare
    \/ SwapStep
    \/ Truncate

IdleQueries ==
    /\ query = NoQuery
    /\ IdleCommunity

(***************************************************************************)
(* Specifications.                                                         *)
(***************************************************************************)
IdleExt ==
    /\ edge_btw = <<>>
    /\ proxy_ret = NoProxyCall
    /\ written = NoWrite

IdleDictList ==
    /\ vertices = <<>>
    /\ edges = <<>>
    /\ iterative = FALSE
    /\ pc = "idle"
    /\ consumed = 0
    /\ vertex_attrs = EmptyDict
    /\ n = 0
    /\ vertex_name_map = <<>>
    /\ g = NoGraph
    /\ idx = 0
    /\ src_name = None
    /\ dst_name = None
    /\ v1 = 0
    /\ v2 = 0
    /\ pending = {}
    /\ edge_list = <<>>
    /\ edge_attrs = EmptyDict
    /\ m = 0
    /\ result = [mode \in BOOLEAN |-> NoOutcome]

\* Graph.DictList, called in both modes on the same records
Init == InitDictList /\ IdleSelect /\ IdleKeyword /\ IdleExt /\ IdleOps /\ IdleQueries

Next == NextDictList

Spec == Init /\ [][Next]_vars

\* chains of select calls on a vertex or an edge sequence
InitSel == IdleDictList /\ InitSelect /\ IdleKeyword /\ IdleExt /\ IdleOps /\ IdleQueries

NextSel == NextSelect

SpecSelect == InitSel /\ [][NextSel]_vars

\* delegated computations: method predicates of select and proxy methods
InitDel == IdleDictList /\ InitDelegate /\ IdleKeyword /\ IdleOps /\ IdleQueries

NextDel == NextDelegate

SpecDelegate == InitDel /\ [][NextDel]_vars

\* attribute reads and writes through a sequence
InitAt == IdleDictList /\ InitAttr /\ IdleKeyword /\ IdleOps /\ IdleQueries

NextAt == NextAttribute

SpecAttr == InitAt /\ [][NextAt]_vars

\* one operator or one call of delete_edges on a graph
InitOp == IdleDictList /\ IdleSelect /\ IdleKeyword /\ IdleExt /\ InitOperators /\ IdleQueries

NextOp == NextOperators

SpecOperators == InitOp /\ [][NextOp]_vars

\* one query of a graph
InitQ ==
    /\ IdleDictList /\ IdleSelect /\ IdleKeyword /\ IdleExt /\ InitOperators
    /\ query = NoQuery /\ IdleCommunity

NextQ == NextQueries

SpecQueries == InitQ /\ [][NextQ]_vars

\* one call of _prepare_community_comparison
InitCc ==
    /\ IdleDictList /\ IdleSelect /\ IdleKeyword /\ IdleExt /\ IdleOps
    /\ query = NoQuery /\ InitCommunity

NextCc == NextCommunity

SpecCommunity == InitCc /\ [][NextCc]_vars

\* the keyword grammar of select
InitKw == IdleDictList /\ IdleSelect /\ InitKeyword /\ IdleExt /\ IdleOps /\ IdleQueries

NextKw == NextKeyword

SpecKeyword == InitKw /\ [][NextKw]_vars


(***************************************************************************)
(* Properties of Graph.DictList.                                           *)
(***************************************************************************)
Modes == BOOLEAN

\* the call in mode `mode` has ended
Ended(mode) == result[mode].kind # "none"

Built(mode) == result[mode].kind = "graph"

BothEnded == pc = "end" /\ iterative

\* reference: the distinct values of l in the order of their first occurrence
RECURSIVE FirstSeen(_)
FirstSeen(l) ==
    IF l = <<>> THEN <<>>
    ELSE LET front == FirstSeen(SubSeq(l, 1, Len(l) - 1))
         IN  IF l[Len(l)] \in ToSet(front) THEN front ELSE Append(front, l[Len(l)])

\* reference: source of record 1, target of record 1, source of record 2, ...
EndpointNames(es) ==
    [i \in 1..(2 * Len(es)) |->
        IF i % 2 = 1 THEN es[(i + 1) \div 2][efk_src] ELSE es[i \div 2][efk_dest]]

\* reference: the value of record i under the name key, None when it has none
RecordNames(vs) ==
    [i \in 1..Len(vs) |-> IF vertex_name_attr \in DOMAIN vs[i] THEN vs[i][vertex_name_attr] ELSE None]

\* reference: names of the vertex records, then the other endpoint names as first seen
ExpectedNames(vs, es) == FirstSeen(RecordNames(vs) \o EndpointNames(es))

\* the vertex id whose name is nm in the built graph gr
IdOfName(gr, nm) == IndexOf(gr.vattrs[vertex_name_attr], nm, 0)

DupNames ==
    \E i, j \in 1..Len(vertices) :
        /\ i < j
        /\ vertex_name_attr \in DOMAIN vertices[i]
        /\ vertex_name_attr \in DOMAIN vertices[j]
        /\ vertices[i][vertex_name_attr] = vertices[j][vertex_name_attr]

\* reference: some value occurs at two positions of l
Repeats(l) == \E i, j \in 1..Len(l) : i < j /\ l[i] = l[j]

LacksEndpoint(edge_data) == efk_src \notin DOMAIN edge_data \/ efk_dest \notin DOMAIN edge_data

SameColumns(a1, a2) == DOMAIN a1 = DOMAIN a2 /\ \A k \in DOMAIN a1 : a1[k] = a2[k]

C2_EndpointGrowth ==
    \A mode \in Modes :
        (vertices = <<>> /\ Built(mode)) =>
            LET gr == result[mode].g
            IN  /\ gr.vattrs[vertex_name_attr] = FirstSeen(EndpointNames(edges))
                /\ vcount(gr) = Len(FirstSeen(EndpointNames(edges)))
                /\ Len(gr.edges) = Len(edges)
                /\ \A j \in 1..Len(edges) :
                    gr.edges[j] = <<IdOfName(gr, edges[j][efk_src]), IdOfName(gr, edges[j][efk_dest])>>

\* the example a-b, a-c: vertex order [a, b, c], edge list [(0,1), (0,2)], in both modes
C2_Witness ==
    /\ BothEnded
    /\ vertices = <<>>
    /\ edges = <<[source |-> "a", target |-> "b"], [source |-> "a", target |-> "c"]>>
    /\ \A mode \in Modes :
        /\ Built(mode)
        /\ result[mode].g.vattrs[vertex_name_attr] = <<"a", "b", "c">>
        /\ result[mode].g.edges = <<(<<0, 1>>), (<<0, 2>>)>>

\* C3: two vertex records with the same name value make the call raise
\* ValueError in either mode, and no edge record is ever taken from edges.
C3_UniquenessError ==
    DupNames =>
        /\ consumed = 0
        /\ \A mode \in Modes : Ended(mode) => result[mode] = Raise("ValueError")

\* the incremental call of an input with duplicate names and at least one
\* edge record has ended
C3_Witness ==
    /\ DupNames
    /\ edges # <<>>
    /\ BothEnded
    /\ result[TRUE].exc = "ValueError"

\* the construction must fail: no name column, a duplicate name, or an edge
\* record without one of its endpoint keys
MustFail ==
    \/ (vertices # <<>> /\ vertex_name_attr \notin AllKeys(vertices))
    \/ Repeats(RecordNames(vertices))
    \/ \E j \in 1..Len(edges) : LacksEndpoint(edges[j])

\* C4: a call of DictList either returns a graph built from all edge records
\* or raises and hands no graph to the caller; it raises exactly when the
\* input has a duplicate name, no name column or an edge record that lacks an
\* endpoint key, whatever was already built when the failure is met.
C4_AllOrNothing ==
    \A mode \in Modes :
        Ended(mode) =>
            /\ result[mode].kind \in {"graph", "error"}
            /\ result[mode].kind = "error" <=> MustFail
            /\ result[mode].kind = "error" => result[mode].g = NoGraph
            /\ result[mode].kind = "graph" => ecount(result[mode].g) = Len(edges)

\* the incremental call failed on its second edge record, after the first
\* one had been added to the live graph
C4_Witness ==
    /\ BothEnded
    /\ result[TRUE].exc = "KeyError"
    /\ consumed = 2
    /\ ~LacksEndpoint(edges[1])
    /\ ~Repeats(RecordNames(vertices))

\* C5 (as claimed): the endpoint keys of the edge records are not stored as
\* edge attribute columns of the built graph.
C5_EndpointKeysNotStored ==
    \A mode \in Modes :
        Built(mode) => DOMAIN result[mode].g.eattrs \cap {efk_src, efk_dest} = {}

\* C6: in a graph built from r vertex records, column k of every key k of a
\* vertex record holds record i's value at position i < r (None when the
\* record has no key k); at the positions >= r every column but the name
\* column holds None and the name column holds the discovered names in id order.
C6_VertexColumns ==
    \A mode \in Modes :
        Built(mode) =>
            LET gr == result[mode].g
                r == Len(vertices)
                names == ExpectedNames(vertices, edges)
            IN  /\ vcount(gr) = Len(names)
                /\ AllKeys(vertices) \subseteq DOMAIN gr.vattrs
                /\ \A k \in DOMAIN gr.vattrs :
                    /\ Len(gr.vattrs[k]) = vcount(gr)
                    /\ \A i \in 1..r :
                        gr.vattrs[k][i] = IF k \in DOMAIN vertices[i] THEN vertices[i][k] ELSE None
                    /\ \A i \in (r + 1)..vcount(gr) :
                        gr.vattrs[k][i] = IF k = vertex_name_attr THEN names[i] ELSE None

\* a graph built from two vertex records of which only the second has the
\* color key, with a vertex discovered from the edges
C6_Witness ==
    /\ BothEnded
    /\ Built(FALSE)
    /\ Built(TRUE)
    /\ Len(vertices) = 2
    /\ "color" \notin DOMAIN vertices[1]
    /\ "color" \in DOMAIN vertices[2]
    /\ vcount(result[TRUE].g) > 2

ColumnLengths(gr) ==
    /\ \A k \in DOMAIN gr.vattrs : Len(gr.vattrs[k]) = vcount(gr)
    /\ \A k \in DOMAIN gr.eattrs : Len(gr.eattrs[k]) = ecount(gr)

\* C7: every vertex column of the live graph of the incremental mode, after
\* each of its steps, and of every returned graph has vertex-count entries,
\* and every edge column has edge-count entries.
C7_ColumnLengths ==
    /\ ColumnLengths(g)
    /\ \A mode \in Modes : ColumnLengths(result[mode].g)

\* the live graph right after add_edges, holding an edge column created by
\* an earlier record and a vertex added after the vertex columns were set
C7_Witness ==
    /\ pc = "set_attrs"
    /\ idx = 1
    /\ pending = DOMAIN edges[2]
    /\ "weight" \in DOMAIN g.eattrs
    /\ "color" \in DOMAIN g.vattrs
    /\ vcount(g) > Len(vertices)
    /\ Built(FALSE)


(***************************************************************************)
(* Properties of select.                                                   *)
(***************************************************************************)
\* seq.select(**{p1}).select(**{p2})
Chained(p1, p2) ==
    LET first == Seq_select(seq_type, sg, sel_seq, NoArgs, <<p1>>)
    IN  IF first.exc # "" THEN first
        ELSE Seq_select(seq_type, sg, first.indices, NoArgs, <<p2>>)

\* two calls end alike: both raise, or both hand back the same absolute indices
SameResult(r1, r2) == (r1.exc = "") = (r2.exc = "") /\ r1.indices = r2.indices

\* C8: for the sequence the client holds and any two predicates with
\* different keyword names, select(**P1).select(**P2) and select(**P1, **P2)
\* hand back the same absolute indices (or both raise), in whichever order
\* select visits the two keywords.
C8_PredicateComposition ==
    \A p1, p2 \in Predicates :
        p1.keyword # p2.keyword =>
            /\ SameResult(Seq_select(seq_type, sg, sel_seq, NoArgs, <<p1, p2>>), Chained(p1, p2))
            /\ SameResult(Seq_select(seq_type, sg, sel_seq, NoArgs, <<p2, p1>>), Chained(p1, p2))

\* the client holds the reordered sequence [2, 0], handed back by select, and
\* two predicates each drop its first member, so that the second predicate
\* sees the kept member at a new position
C8_Witness ==
    /\ sel_seq = <<2, 0>>
    /\ ret = Selected(sel_seq)
    /\ \E p1, p2 \in Predicates :
        /\ p1.keyword # p2.keyword
        /\ Seq_select(seq_type, sg, sel_seq, NoArgs, <<p1>>) = Selected(<<0>>)
        /\ Seq_select(seq_type, sg, sel_seq, NoArgs, <<p2>>) = Selected(<<0>>)
        /\ Seq_select(seq_type, sg, sel_seq, NoArgs, <<p1, p2>>) = Selected(<<0>>)

InRange(idxs, len) == \A k \in 1..Len(idxs) : 0 <= idxs[k] /\ idxs[k] < len

\* C9: integer positional arguments, bare or in one iterable, are positions
\* in the sequence the client holds, whatever calls produced it: argument k
\* picks the member at that position, and a position outside 0..len-1 makes
\* select raise a lookup error; [5,2,9].select(0,2) is [5,9].
C9_RelativeIndices ==
    /\ \A idxs \in SeqsUpTo((-1)..Len(sel_seq), MaxArgs) \ {<<>>} :
        \A args \in {Ints(idxs), Iterable(idxs)} :
            LET r == Seq_select(seq_type, sg, sel_seq, args, <<>>)
            IN  IF InRange(idxs, Len(sel_seq))
                THEN /\ r.exc = ""
                     /\ Len(r.indices) = Len(idxs)
                     /\ \A k \in 1..Len(idxs) : r.indices[k] = sel_seq[idxs[k] + 1]
                ELSE r.exc = "LookupError"
    /\ \A type \in {"vertex", "edge"} :
        Seq_select(type, sg, <<5, 2, 9>>, Ints(<<0, 2>>), <<>>) = Selected(<<5, 9>>)

\* the client holds [2, 0], handed back by an earlier select: select(1, 0)
\* gives [0, 2], not the vertices 1 and 0 of the graph
C9_Witness ==
    /\ sel_seq = <<2, 0>>
    /\ ret = Selected(sel_seq)
    /\ seq_type = "vertex"
    /\ Seq_select(seq_type, sg, sel_seq, Ints(<<1, 0>>), <<>>) = Selected(<<0, 2>>)

\* reference: the Python position of the last underscore of kw
LastUnderscore(kw) ==
    CHOOSE i \in 0..(Len(kw) - 1) : kw[i + 1] = "_" /\ \A j \in 1..Len(kw) : kw[j] = "_" => j <= i + 1

\* reference: the grammar as claimed
ClaimedSplit(kw) ==
    IF Contains(kw, "_") /\ Slice(kw, LastUnderscore(kw) + 1, Len(kw)) \in operators
    THEN [attr |-> Slice(kw, 0, LastUnderscore(kw)),
          func |-> Slice(kw, LastUnderscore(kw) + 1, Len(kw))]
    ELSE [attr |-> kw, func |-> op_eq]

\* reference: the grammar with the leading underscore taken as part of the name
MarkedSplit(kw) ==
    IF Contains(kw, "_") /\ LastUnderscore(kw) > 0
       /\ Slice(kw, LastUnderscore(kw) + 1, Len(kw)) \in operators
    THEN [attr |-> Slice(kw, 0, LastUnderscore(kw)),
          func |-> Slice(kw, LastUnderscore(kw) + 1, Len(kw))]
    ELSE [attr |-> kw, func |-> op_eq]

Agrees(split, expected) == split.attr = expected.attr /\ split.func = expected.func

EndpointsOf(gr, e) == {gr.edges[e + 1][1], gr.edges[e + 1][2]}

\* reference: the members of the sequence that satisfy Keep, in sequence order
RECURSIVE Kept(_, _)
Kept(indices, keep) ==
    IF indices = <<>> THEN <<>>
    ELSE IF Head(indices) \in keep THEN <<Head(indices)>> \o Kept(Tail(indices), keep)
    ELSE Kept(Tail(indices), keep)

VertexSets == SUBSET (0..(NumVertices - 1))

\* a keyword alone and with every operator suffix
WithSuffixes(name) == {name} \cup {Keyword(name, op) : op \in operators}

\* the graph of four vertices with the edges (0,1), (1,2), (2,3), (0,3)
SquareGraph ==
    [n |-> 4, edges |-> <<<<0, 1>>, <<1, 2>>, <<2, 3>>, <<0, 3>>>>, directed |-> FALSE,
     vattrs |-> EmptyDict, eattrs |-> EmptyDict]

\* C11: on the edge sequence the client holds, select(_within=S), with any
\* operator suffix and S given as an iterable of indices or as a vertex
\* sequence, keeps exactly the edges whose two endpoints lie in S, in
\* sequence order; on the edges (0,1),(1,2),(2,3),(0,3), _within=[0,1,3]
\* keeps (0,1) and (0,3).
C11_Within ==
    /\ seq_type = "edge" =>
        \A S \in VertexSets : \A value \in {Collection(S), VertexSeqValue(S)} :
            \A kw \in WithSuffixes(name_within) :
                EdgeSeq_select(sg, sel_seq, NoArgs, <<Pred(kw, value)>>)
                    = Selected(Kept(sel_seq, {e \in ToSet(sel_seq) : EndpointsOf(sg, e) \subseteq S}))
    /\ EdgeSeq_select(SquareGraph, AllIndices(4), NoArgs,
                      <<Pred(name_within, Collection({0, 1, 3}))>>) = Selected(<<0, 3>>)

\* the client holds the edges [2, 0], handed back by select: _within of the
\* vertices 0 and 1 keeps edge 0 alone, at a new position
C11_Witness ==
    /\ seq_type = "edge"
    /\ sel_seq = <<2, 0>>
    /\ ret = Selected(sel_seq)
    /\ EdgeSeq_select(sg, sel_seq, NoArgs, <<Pred(name_within, VertexSeqValue({0, 1}))>>)
           = Selected(<<0>>)

\* reference: edge e of the graph has one endpoint in A and the other in B
Joins(gr, e, A, B) ==
    \/ gr.edges[e + 1][1] \in A /\ gr.edges[e + 1][2] \in B
    \/ gr.edges[e + 1][1] \in B /\ gr.edges[e + 1][2] \in A

SelectBy(name, op, value) ==
    Seq_select(seq_type, sg, sel_seq, NoArgs, <<Pred(Keyword(name, op), value)>>)

\* reference: the members of the sequence whose value is in S (op in), or
\* is not in S (op notin), in sequence order
KeptByMembership(op, valueOf, S) ==
    Kept(sel_seq, {e \in ToSet(sel_seq) : (valueOf[e] \in S) = (op = op_in)})

\* reference: the literal attribute x of every entity of the graph
LiteralX ==
    [e \in 0..(NumVertices - 1) |->
        IF seq_type = "vertex" THEN sg.vattrs[attr_x][e + 1] ELSE sg.eattrs[attr_x][e + 1]]

\* reference: the source and the target of every edge of the graph
SourceOf == [e \in 0..(Len(sg.edges) - 1) |-> sg.edges[e + 1][1]]
TargetOf == [e \in 0..(Len(sg.edges) - 1) |-> sg.edges[e + 1][2]]

\* C13 (as claimed): every in / notin predicate, on a literal attribute as on
\* an endpoint property, tests membership in the set the right-hand side is
\* coerced to: the items of an iterable, the absolute indices of an entity
\* sequence.
C13_AsClaimed ==
    \A S \in VertexSets : \A value \in {Collection(S), VertexSeqValue(S)} :
        \A op \in {op_in, op_notin} :
            /\ SelectBy(attr_x, op, value) = Selected(KeptByMembership(op, LiteralX, S))
            /\ seq_type = "edge" =>
                /\ SelectBy(name_source, op, value) = Selected(KeptByMembership(op, SourceOf, S))
                /\ SelectBy(name_target, op, value) = Selected(KeptByMembership(op, TargetOf, S))

\* C13 (amended): an in / notin predicate on an endpoint property of an edge
\* sequence tests membership in the set the right-hand side is coerced to
\* (the items of an iterable, the absolute indices of a vertex sequence); on
\* a literal attribute the right-hand side is tested as given, and an
\* iterable of items gives the membership in the set of its items.
C13_SetCoercion ==
    \A S \in VertexSets : \A op \in {op_in, op_notin} :
        /\ SelectBy(attr_x, op, Collection(S)) = Selected(KeptByMembership(op, LiteralX, S))
        /\ seq_type = "edge" =>
            \A value \in {Collection(S), VertexSeqValue(S)} :
                /\ SelectBy(name_source, op, value) = Selected(KeptByMembership(op, SourceOf, S))
                /\ SelectBy(name_from, op, value) = Selected(KeptByMembership(op, SourceOf, S))
                /\ SelectBy(name_target, op, value) = Selected(KeptByMembership(op, TargetOf, S))
                /\ SelectBy(name_to, op, value) = Selected(KeptByMembership(op, TargetOf, S))

\* the client holds the edges [2, 0], handed back by select: with a vertex
\* sequence of the vertices 1 and 2 as the right-hand side, _source_in keeps
\* edge 2 and _target_notin keeps edge 2
C13_Witness ==
    /\ seq_type = "edge"
    /\ sel_seq = <<2, 0>>
    /\ ret = Selected(sel_seq)
    /\ SelectBy(name_source, op_in, VertexSeqValue({1, 2})) = Selected(<<2>>)
    /\ SelectBy(name_target, op_notin, VertexSeqValue({1, 2})) = Selected(<<2>>)

(***************************************************************************)
(* Properties of the delegated computations.                               *)
(***************************************************************************)
\* reference: a op c for the six comparison operators
Compare(op, a, c) ==
    CASE op = op_lt -> a < c
      [] op = op_gt -> a > c
      [] op = op_le -> a <= c
      [] op = op_ge -> a >= c
      [] op = op_eq -> a = c
      [] op = op_ne -> a # c

Comparisons == {op_lt, op_gt, op_le, op_ge, op_eq, op_ne}

\* reference: the degree of every vertex of the graph, a loop counted twice
DegreeOf ==
    [v \in 0..(sg.n - 1) |->
        Cardinality({<<j, side>> \in (1..Len(sg.edges)) \X {1, 2} : sg.edges[j][side] = v})]

\* reference: 1 for every edge of the graph that is a loop, 0 for the others
LoopOf ==
    [e \in 0..(Len(sg.edges) - 1) |-> IF sg.edges[e + 1][1] = sg.edges[e + 1][2] THEN 1 ELSE 0]

\* reference: the whole-graph edge betweenness by absolute edge index
BetweennessOf == [e \in 0..(Len(sg.edges) - 1) |-> edge_btw[e + 1]]

\* reference: the whole-graph result of the computation
WholeGraph(name) ==
    CASE name = name_degree -> DegreeOf
      [] name = name_is_loop -> LoopOf
      [] name = name_edge_betweenness -> BetweennessOf

\* reference: the members of the sequence whose own value satisfies op c
KeptByValue(valueOf, op, c) ==
    Kept(sel_seq, {e \in ToSet(sel_seq) : Compare(op, valueOf[e], c)})

\* C14: a predicate on a computation of the graph keeps exactly the members
\* of the current sequence whose own computed value satisfies the operator,
\* for vertex sequences (_degree) and edge sequences (_is_loop,
\* _edge_betweenness), also when the sequence is narrowed or reordered; a
\* name the graph does not provide raises an error.
C14_DelegatedPredicates ==
    sg = DelegateGraph =>
        \A op \in Comparisons : \A c \in 0..4 :
            /\ SelectBy(Method(name_nosuch), op, Scalar(c)).exc # ""
            /\ \A name \in ProxyMethods(seq_type) :
                SelectBy(Method(name), op, Scalar(c))
                    = Selected(KeptByValue(WholeGraph(name), op, c))

WeightColumn == IF seq_type = "vertex" THEN sg.vattrs[attr_weight] ELSE sg.eattrs[attr_weight]

\* position k is the last one of the sequence `on` that holds its entity
LastOccurrence(on, k) == \A k2 \in 1..Len(on) : on[k2] = on[k] => k2 <= k

\* C16: after seq[attr] = values with a list of length p no longer than the
\* sequence, the entity at position i holds values[i mod p] (where an entity
\* is held twice, the value of its last position); a scalar is stored at
\* every entity of the sequence; a 7-entity collection set with [a, b] reads
\* back [a, b, a, b, a, b, a], and set with the string "red" reads back
\* "red" seven times.
C16_BroadcastCycle ==
    /\ written # NoWrite =>
        \A k \in 1..Len(written.on) :
            LastOccurrence(written.on, k) =>
                WeightColumn[written.on[k] + 1]
                    = written.list[((k - 1) % Len(written.list)) + 1]
    /\ (written # NoWrite /\ written.kind = "scalar") =>
        \A k \in 1..Len(written.on) : WeightColumn[written.on[k] + 1] = written.list[1]
    /\ \A type \in {"vertex", "edge"} :
        LET g7 == [n |-> 7, edges |-> [i \in 1..7 |-> <<0, i - 1>>], directed |-> FALSE,
                   vattrs |-> EmptyDict, eattrs |-> EmptyDict]
        IN  /\ Seq_getitem(type,
                           Seq_setitem(type, g7, AllIndices(7), <<"c">>, ListValue(<<"a", "b">>)),
                           AllIndices(7), <<"c">>)
                   = <<"a", "b", "a", "b", "a", "b", "a">>
            /\ Seq_getitem(type,
                           Seq_setitem(type, g7, AllIndices(7), <<"c">>, ScalarValue("red")),
                           AllIndices(7), <<"c">>)
                   = <<"red", "red", "red", "red", "red", "red", "red">>

\* the list [10, 20] has been assigned through the full sequence of three
C16_Witness ==
    /\ written = [attr |-> attr_weight, on |-> <<0, 1, 2>>, kind |-> "list", list |-> <<10, 20>>]
    /\ WeightColumn = <<10, 20, 10>>

\* C17: a write through a sequence changes the column only at the absolute
\* indices of the sequence and leaves the other entities, and the column of
\* the other scope, as they were; a read through a sequence hands back the
\* values of its entities in sequence order; with weight = [0, 2, 6],
\* g.vs.select(1, 2)["weight"] = [10, 20] gives [0, 10, 20].
C17_NarrowedWrite ==
    /\ written # NoWrite =>
        /\ \A j \in 0..2 : j \notin ToSet(written.on) => WeightColumn[j + 1] = InitialWeights[j + 1]
        /\ seq_type = "vertex" => sg.eattrs[attr_weight] = InitialWeights
        /\ seq_type = "edge" => sg.vattrs[attr_weight] = InitialWeights
    /\ proxy_ret.name = attr_weight =>
        /\ Len(proxy_ret.values) = Len(proxy_ret.on)
        /\ \A k \in 1..Len(proxy_ret.on) : proxy_ret.values[k] = WeightColumn[proxy_ret.on[k] + 1]
    /\ Seq_setitem("vertex", AttrGraph,
                   VertexSeq_select(AttrGraph, AllIndices(3), Ints(<<1, 2>>), <<>>).indices,
                   attr_weight, ListValue(<<10, 20>>)).vattrs[attr_weight] = <<0, 10, 20>>

\* [10, 20] has been assigned through the vertices [1, 2] and read back
C17_Witness ==
    /\ seq_type = "vertex"
    /\ written = [attr |-> attr_weight, on |-> <<1, 2>>, kind |-> "list", list |-> <<10, 20>>]
    /\ WeightColumn = <<0, 10, 20>>
    /\ proxy_ret = [name |-> attr_weight, on |-> <<1, 2>>, values |-> <<10, 20>>]

(***************************************************************************)
(* Properties of select as a whole.                                        *)
(***************************************************************************)
\* C18: select() with no positional and no keyword argument hands back the
\* absolute indices of the receiver in the order of the receiver, for the
\* vertex and the edge sequence the client holds: full, narrowed, reordered
\* or empty.
C18_Identity ==
    /\ Seq_select(seq_type, sg, sel_seq, NoArgs, <<>>) = Selected(sel_seq)
    /\ VertexSeq_select(sg, sel_seq, NoArgs, <<>>) = Selected(sel_seq)
    /\ EdgeSeq_select(sg, sel_seq, NoArgs, <<>>) = Selected(sel_seq)

\* the client holds the edges [2, 0], a reordered proper subset handed back
\* by select, and select() hands back [2, 0]
C18_Witness ==
    /\ seq_type = "edge"
    /\ sel_seq = <<2, 0>>
    /\ ret = Selected(sel_seq)
    /\ Seq_select(seq_type, sg, sel_seq, NoArgs, <<>>).indices = <<2, 0>>

\* C19: select(*pos, **kw) on the sequence the client holds gives what
\* select(*pos).select(**kw) gives: the error of the positional resolution
\* when it fails, whatever the keywords are, and otherwise the outcome of
\* the keyword predicates on the entities the positional resolution left,
\* the positions of pos being positions of the receiver; for the predicate
\* x = c these are the entities picked by pos whose x is c.
C19_PositionalFirst ==
    \A args \in PositionalArgs(Len(sel_seq)) :
        LET first == Seq_select(seq_type, sg, sel_seq, args, <<>>)
        IN  /\ first = core_select(sel_seq, args)
            /\ \A kwds \in KeywordLists :
                Seq_select(seq_type, sg, sel_seq, args, kwds)
                    = IF first.exc # "" THEN first
                      ELSE Seq_select(seq_type, sg, first.indices, NoArgs, kwds)
            /\ first.exc = "" =>
                \A c \in {0, 1} :
                    Seq_select(seq_type, sg, sel_seq, args, <<Pred(attr_x, Scalar(c))>>)
                        = Selected(Kept(first.indices,
                                        {e \in ToSet(first.indices) : LiteralX[e] = c}))

\* the client holds a narrowed sequence of two entities, and for some bare
\* integers and keywords select keeps an entity where resolving the
\* integers after the keywords would give another outcome
C19_Witness ==
    /\ Len(sel_seq) = 2
    /\ ret = Selected(sel_seq)
    /\ \E args \in PositionalArgs(2) : \E kwds \in KeywordLists :
        LET both == Seq_select(seq_type, sg, sel_seq, args, kwds)
            later == Seq_select(seq_type, sg, sel_seq, NoArgs, kwds)
        IN  /\ args.kind = "ints"
            /\ both.exc = "" /\ both.indices # <<>>
            /\ later.exc = ""
            /\ core_select(later.indices, args) # both

(***************************************************************************)
(* Properties of the endpoint predicates of EdgeSeq.select.                *)
(***************************************************************************)
\* C20: on the edge sequence the client holds, _source and _from stand for
\* the source vertex of each edge and _target and _to for its target, one
\* value per edge of the sequence in sequence order: with a comparison
\* operator, or none, the edges whose endpoint compares so with the value
\* are kept; with in / notin the edges whose endpoint is, or is not, in the
\* set; the two names of an endpoint give the same outcome for every
\* operator and every value, errors included.
C20_EndpointPredicates ==
    seq_type = "edge" =>
        /\ \A c \in 0..NumVertices :
            /\ \A op \in Comparisons :
                /\ SelectBy(name_source, op, Scalar(c))
                       = Selected(KeptByValue(SourceOf, op, c))
                /\ SelectBy(name_target, op, Scalar(c))
                       = Selected(KeptByValue(TargetOf, op, c))
            /\ Seq_select(seq_type, sg, sel_seq, NoArgs, <<Pred(name_source, Scalar(c))>>)
                   = Selected(KeptByValue(SourceOf, op_eq, c))
            /\ Seq_select(seq_type, sg, sel_seq, NoArgs, <<Pred(name_target, Scalar(c))>>)
                   = Selected(KeptByValue(TargetOf, op_eq, c))
            /\ Seq_select(seq_type, sg, sel_seq, NoArgs, <<Pred(name_from, Scalar(c))>>)
                   = Seq_select(seq_type, sg, sel_seq, NoArgs, <<Pred(name_source, Scalar(c))>>)
            /\ Seq_select(seq_type, sg, sel_seq, NoArgs, <<Pred(name_to, Scalar(c))>>)
                   = Seq_select(seq_type, sg, sel_seq, NoArgs, <<Pred(name_target, Scalar(c))>>)
        /\ \A S \in VertexSets : \A op \in {op_in, op_notin} :
            /\ SelectBy(name_source, op, Collection(S))
                   = Selected(Kept(sel_seq, {e \in ToSet(sel_seq) : (SourceOf[e] \in S) = (op = op_in)}))
            /\ SelectBy(name_target, op, Collection(S))
                   = Selected(Kept(sel_seq, {e \in ToSet(sel_seq) : (TargetOf[e] \in S) = (op = op_in)}))
        /\ \A op \in operators :
            \A value \in {Scalar(c) : c \in 0..NumVertices}
                         \cup {Collection(S) : S \in VertexSets}
                         \cup {VertexSeqValue(S) : S \in VertexSets} :
                (op \in {op_in, op_notin} \/ value.tag = "scalar") =>
                    /\ SelectBy(name_from, op, value) = SelectBy(name_source, op, value)
                    /\ SelectBy(name_to, op, value) = SelectBy(name_target, op, value)

\* the client holds the edges [2, 0] of the ring, handed back by select:
\* _source_ge = 1 and _to_lt = 1 keep edge 2, _from_in = [0] keeps edge 0
C20_Witness ==
    /\ seq_type = "edge"
    /\ sel_seq = <<2, 0>>
    /\ ret = Selected(sel_seq)
    /\ SelectBy(name_source, op_ge, Scalar(1)) = Selected(<<2>>)
    /\ SelectBy(name_to, op_lt, Scalar(1)) = Selected(<<2>>)
    /\ SelectBy(name_from, op_in, Collection({0})) = Selected(<<0>>)

(***************************************************************************)
(* Properties of the names in Graph.DictList.                              *)
(***************************************************************************)
\* reference: the endpoint names of the first k edge records
NamesReadSoFar(recs, k) == UNION {{recs[i][efk_src], recs[i][efk_dest]} : i \in 1..k}

\* C28: in the incremental mode, whenever an edge record has been fully
\* processed, the live graph has as many vertices as the generator knows
\* names, which are the names of the vertex records and the endpoint names
\* of the records read so far; the name of vertex i is the name with id i;
\* the graph has one edge per record read and both endpoints of every edge
\* are vertices of the graph.  A record that names one unseen vertex as its
\* source and its target therefore adds one vertex.
C28_LoopInvariant ==
    (iterative /\ pc = "iter_loop") =>
        /\ vcount(g) = Len(vertex_name_map)
        /\ vcount(g) = n
        /\ vcount(g) = Cardinality(ToSet(vertex_attrs[vertex_name_attr])
                                   \cup NamesReadSoFar(edges, consumed))
        /\ g.vattrs[vertex_name_attr] = UIG_values(vertex_name_map)
        /\ \A i \in 0..(vcount(g) - 1) :
            UIG_id(vertex_name_map, g.vattrs[vertex_name_attr][i + 1]) = i
        /\ ecount(g) = consumed
        /\ \A j \in 1..ecount(g) :
            /\ 0 <= g.edges[j][1] /\ g.edges[j][1] < vcount(g)
            /\ 0 <= g.edges[j][2] /\ g.edges[j][2] < vcount(g)

\* one vertex record, and the first edge record, a loop on the unseen name
\* c, has been processed: the live graph has two vertices
C28_Witness ==
    /\ iterative /\ pc = "iter_loop"
    /\ Len(vertices) = 1
    /\ consumed = 1
    /\ edges[1][efk_src] = "c" /\ edges[1][efk_dest] = "c"
    /\ vcount(g) = 2
    /\ g.edges = <<(<<1, 1>>)>>

\* C29: in every graph DictList returns, in either mode, the source vertex
\* of edge j carries the source name of edge record j and its target vertex
\* the target name, and no name occurs twice in the name column.
C29_NameRoundTrip ==
    \A mode \in BOOLEAN :
        result[mode].kind = "graph" =>
            LET gr == result[mode].g
                names == gr.vattrs[vertex_name_attr]
            IN  /\ ecount(gr) = Len(edges)
                /\ Len(names) = vcount(gr)
                /\ \A j \in 1..Len(edges) :
                    /\ names[gr.edges[j][1] + 1] = edges[j][efk_src]
                    /\ names[gr.edges[j][2] + 1] = edges[j][efk_dest]
                /\ \A i1, i2 \in 1..Len(names) : names[i1] = names[i2] => i1 = i2

\* both modes have returned a graph for the records b-c, c-a and the vertex
\* record a: the names are a, b, c and the edges join 1-2 and 2-0
C29_Witness ==
    /\ \A mode \in BOOLEAN : result[mode].kind = "graph"
    /\ Len(vertices) = 1
    /\ Len(edges) = 2
    /\ result[TRUE].g.vattrs[vertex_name_attr] = <<"a", "b", "c">>
    /\ result[TRUE].g.edges = <<(<<1, 2>>), (<<2, 0>>)>>
    /\ result[FALSE].g.edges = result[TRUE].g.edges

(***************************************************************************)
(* Properties of select with keyword predicates only.                      *)
(***************************************************************************)
RECURSIVE IsSubsequence(_, _)
\* reference: s is t with some of its positions left out
IsSubsequence(s, t) ==
    IF s = <<>> THEN TRUE
    ELSE IF t = <<>> THEN FALSE
    ELSE IF Head(s) = Head(t) THEN IsSubsequence(Tail(s), Tail(t))
    ELSE IsSubsequence(s, Tail(t))

\* the structural predicates an edge sequence is tried with
StructuralLists ==
    {<<Pred(name_within, Collection(S))>> : S \in VertexSets}
    \cup {<<Pred(name_between, Pair(S1, {0}))>> : S1 \in VertexSets}

\* what select(**kwds) hands back is the receiver with some positions left out
KeepsOrder ==
    \A kwds \in KeywordLists \cup (IF seq_type = "edge" THEN StructuralLists ELSE {}) :
        LET r == Seq_select(seq_type, sg, sel_seq, NoArgs, kwds)
        IN  r.exc = "" => IsSubsequence(r.indices, sel_seq)

\* C30: select with keyword predicates only hands back the absolute indices
\* of the receiver with some positions left out: no other index, the order
\* of the receiver, no entity more often than in the receiver; and no call
\* of select changes the graph, its attribute columns, or, when it raises,
\* the sequence the client holds.
C30_OrderPreservingSubsequence ==
    /\ []KeepsOrder
    /\ [][/\ sg' = sg
          /\ ret'.exc # "" => sel_seq' = sel_seq
          /\ ret'.exc = "" => sel_seq' = ret'.indices]_vars

\* the client holds the reordered sequence [2, 0], handed back by select;
\* one list of predicates keeps both entities, as [2, 0], and another
\* keeps exactly one of them
C30_Witness ==
    /\ sel_seq = <<2, 0>>
    /\ ret = Selected(sel_seq)
    /\ \E kwds \in KeywordLists :
        Seq_select(seq_type, sg, sel_seq, NoArgs, kwds) = Selected(<<2, 0>>)
    /\ \E kwds \in KeywordLists :
        Len(Seq_select(seq_type, sg, sel_seq, NoArgs, kwds).indices) = 1

(***************************************************************************)
(* Properties of Graph.delete_edges and of the operators of Graph.         *)
(***************************************************************************)
\* the call of delete_edges derives the edges from select
DerivesFromSelect(args, kwds) ==
    IF kwds # <<>> THEN TRUE
    ELSE IF args = <<>> THEN FALSE
    ELSE args[1].kind = "callable"

\* C21: delete_edges with no argument at all raises ValueError and leaves
\* the graph as it was; with a keyword argument, or a callable that is not
\* an edge sequence as the first positional argument, it removes exactly
\* the edges of self.es.select(*args, **kwds) evaluated on the graph
\* before the call (and raises what select raises, the graph unchanged);
\* otherwise the first positional argument is the edge specification.
C21_DeleteEdges ==
    opcall.op = "delete_edges" =>
        IF opcall.args = <<>> /\ opcall.kwds = <<>>
        THEN opret.exc = "ValueError" /\ heap[1] = opcall.before
        ELSE IF DerivesFromSelect(opcall.args, opcall.kwds)
        THEN IF EdgeSeq_select(opcall.before, AllIndices(ecount(opcall.before)),
                               AsSelectArgs(opcall.args), opcall.kwds).exc # ""
             THEN /\ opret.exc = EdgeSeq_select(opcall.before,
                                                AllIndices(ecount(opcall.before)),
                                                AsSelectArgs(opcall.args), opcall.kwds).exc
                  /\ heap[1] = opcall.before
             ELSE /\ opret.exc = ""
                  /\ heap[1] = RemoveEdges(opcall.before,
                                           ToSet(EdgeSeq_select(opcall.before,
                                                                AllIndices(ecount(opcall.before)),
                                                                AsSelectArgs(opcall.args),
                                                                opcall.kwds).indices))
        ELSE /\ opret.exc = GraphBase_delete_edges(opcall.before, opcall.args[1]).exc
             /\ heap[1] = GraphBase_delete_edges(opcall.before, opcall.args[1]).g

\* delete_edges([0, 1], _source=0) on the path 0-1-2 has removed edge 0,
\* the one edge among the two whose source is 0
C21_Witness ==
    /\ opcall.op = "delete_edges"
    /\ opcall.args = <<IdsSpec(<<0, 1>>)>>
    /\ opcall.kwds = <<Pred(name_source, Scalar(0))>>
    /\ opcall.before.edges = <<(<<0, 1>>), (<<1, 2>>)>>
    /\ opret.exc = ""
    /\ heap[1].edges = <<(<<1, 2>>)>>

\* C22: g + x, g - x and g * k hand back a graph object other than g and
\* leave g as it was, also after the object handed back has been changed.
C22_OperatorsCopy ==
    (opcall.op \in {"add", "sub", "mul"} /\ opret.kind = "graph") =>
        /\ opret.obj # 1
        /\ heap[1] = opcall.before

\* reference: the edges of k copies of el over cnt vertices each
RECURSIVE CopiesOf(_, _, _)
CopiesOf(el, cnt, k) ==
    IF k = 0 THEN <<>> ELSE CopiesOf(el, cnt, k - 1) \o Shifted(el, (k - 1) * cnt)

\* C23: g * k for an integer k >= 0 is the disjoint union of k copies of
\* g, with k * vcount(g) vertices and k * ecount(g) edges; for a negative
\* integer and for any other operand the result is NotImplemented.
C23_Multiplication ==
    (opcall.op = "mul" /\ ~opcall.mutated) =>
        IF opcall.other.kind = "int" /\ opcall.other.k >= 0
        THEN /\ opret.kind = "graph"
             /\ vcount(heap[opret.obj]) = opcall.other.k * vcount(opcall.before)
             /\ ecount(heap[opret.obj]) = opcall.other.k * ecount(opcall.before)
             /\ heap[opret.obj].edges
                    = CopiesOf(opcall.before.edges, vcount(opcall.before), opcall.other.k)
        ELSE opret.kind = "NotImplemented"

\* C25: for a tuple (s, t) of two vertex ids, g - (s, t) is the graph that
\* g -= (s, t) makes of a copy of g: the same edge is removed, and both
\* fail when no edge joins s and t.
C25_SubtractEdge ==
    (opcall.op = "sub" /\ opcall.other.kind = "tuple" /\ Len(opcall.other.ints) = 2
     /\ ~opcall.mutated) =>
        /\ opret.kind = Graph_isub(opcall.before, opcall.other).kind
        /\ opret.kind = "graph" =>
            heap[opret.obj] = Graph_isub(opcall.before, opcall.other).val

(***************************************************************************)
(* Properties of the queries of a graph.                                   *)
(***************************************************************************)
\* reference: the k-core of gr, the graph induced by the vertices whose
\* coreness is at least k
CoreOf(gr, k) ==
    subgraph(gr, SelectSeq(AllIndices(vcount(gr)), LAMBDA v : coreness(gr)[v + 1] >= k))

\* C24: k_core() hands back the list of the k-cores for k = 0 .. vcount-1,
\* on every graph; k_core(k) for one integer k hands back the single graph
\* that is the k-core; with several arguments or a list it hands back the
\* list of the k-cores in the order the indices were given.
C24_KCore ==
    query.method = "k_core" =>
        /\ query.exc = ""
        /\ IF query.args = <<>>
           THEN /\ ~query.single
                /\ query.graphs = [i \in 1..vcount(heap[1]) |-> CoreOf(heap[1], i - 1)]
           ELSE /\ query.single = (Len(query.args) = 1 /\ query.args[1].kind = "int")
                /\ query.graphs = [i \in 1..Len(Extended(query.args)) |->
                                      CoreOf(heap[1], Extended(query.args)[i])]

\* reference: the greatest distance from v to a vertex of gr
GreatestDistance(gr, v) ==
    CHOOSE d \in 0..vcount(gr) :
        /\ \E w \in 0..(vcount(gr) - 1) : Distance(gr, v, w) = d
        /\ \A w \in 0..(vcount(gr) - 1) : Distance(gr, v, w) <= d

\* C26: eccentricity(vertices) for vertices of the graph hands back one
\* entry per queried vertex, in the order queried, and one entry per
\* vertex of the graph when vertices is None.
C26_OneEntryPerVertex ==
    (/\ query.method = "eccentricity"
     /\ \A i \in 1..Len(query.args[1].ints) : query.args[1].ints[i] < vcount(heap[1])) =>
        /\ query.exc = ""
        /\ Len(query.values) = IF query.args[1].kind = "None" THEN vcount(heap[1])
                               ELSE Len(query.args[1].ints)
        /\ vcount(heap[1]) > 1 =>
            \A i \in 1..Len(query.values) :
                query.values[i] = GreatestDistance(heap[1],
                                      IF query.args[1].kind = "None" THEN i - 1
                                      ELSE query.args[1].ints[i])

(***************************************************************************)
(* Properties of _prepare_community_comparison.                            *)
(***************************************************************************)
\* the number of positions at which l1 and l2 hold the pair p
PairCount(l1, l2, p) == Cardinality({i \in 1..Len(l1) : l1[i] = p[1] /\ l2[i] = p[2]})

\* C27: the plain lists given as arguments keep their content; arguments
\* of different lengths end in ValueError; with remove_none=True the two
\* lists handed back are equally long, hold no None, and hold at their
\* positions each pair of the arguments without a None as often as the
\* arguments do.
C27_RemoveNone ==
    /\ cc.pc # "idle" =>
        \A k \in 1..2 : cc.kinds[k] = "list" => lists[k] = cc.before[k]
    /\ cc.pc = "done" =>
        IF Len(cc.before[1]) # Len(cc.before[2]) THEN cc.exc = "ValueError"
        ELSE /\ cc.exc = ""
             /\ cc.remove_none =>
                /\ Len(lists[cc.vec1]) = Len(lists[cc.vec2])
                /\ None \notin (ToSet(lists[cc.vec1]) \cup ToSet(lists[cc.vec2]))
                /\ \A p \in Members \X Members :
                    PairCount(lists[cc.vec1], lists[cc.vec2], p)
                        = IF None \in {p[1], p[2]} THEN 0
                          ELSE PairCount(cc.before[1], cc.before[2], p)

\* [None, "0", "1"] and ["0", "0", "1"] with remove_none=True came back as
\* ["1", "0"] and ["1", "0"]: the pair at position 0 is gone and the two
\* others have changed places
C27_Witness ==
    /\ cc.pc = "done"
    /\ cc.remove_none
    /\ cc.kinds = <<"list", "list">>
    /\ cc.before = <<(<<None, "0", "1">>), (<<"0", "0", "1">>)>>
    /\ lists[1] = <<None, "0", "1">>
    /\ lists[cc.vec1] = <<"1", "0">>
    /\ lists[cc.vec2] = <<"1", "0">>

====
